---- MODULE Spec2Model ----
(***************************************************************************)
(* A model of the Noise transport of bitchat-web:                          *)
(*   - NoiseCipherState   (src/src/crypto/noise/NoiseCipherState.ts)       *)
(*   - NoiseSymmetricState, NoiseHandshakeState                            *)
(*                        (src/src/crypto/noise/NoiseHandshakeState.ts)    *)
(*   - NoiseSession       (src/src/crypto/noise/types.ts)                  *)
(*                                                                         *)
(* Cryptographic primitives are symbolic: a byte string is a term, a tuple *)
(* whose first element is a tag and whose shape is fixed by the tag.       *)
(*   <<"bytes", name, len>>           application bytes of length len      *)
(*   <<"priv", s, k>>, <<"pub", s, k>> the k-th X25519 key pair of party s *)
(*   <<"dh", {pair1, pair2}>>         X25519 shared secret of two pairs    *)
(*   <<"sha256", h, data>>            SHA-256(h || data)                   *)
(*   <<"hkdf", ck, ikm, i>>           i-th HKDF output                     *)
(*   <<"aead", key, nonce, ad, pt>>   ChaCha20-Poly1305 ciphertext || tag  *)
(*   <<"frame", nonce, body>>         4-byte big-endian nonce || body      *)
(*   <<"zero", len>>                  len zero bytes                       *)
(*   <<"slice", msg, offset, len>>    len bytes cut out of a message       *)
(* A nullable reference is a sequence of length 0 (null) or 1.             *)
(*                                                                         *)
(* The nonce counters of the source are bigints compared against 2^32 - 1. *)
(* TLC integers are 32-bit signed, so a counter n is stored as n - 2^31:   *)
(* ZERO_NONCE stands for 0n and UINT32_MAX for 0xffffffff.  Order and      *)
(* differences of counters are unchanged by the offset.                    *)
(***************************************************************************)
EXTENDS Integers, Sequences, FiniteSets, Bags, TLC

(***************************************************************************)
(* Bounds of the model.                                                    *)
(***************************************************************************)
MaxRecords == 5
MaxDeliveries == 3
MaxBursts == 2
MaxRun == 2
MaxSndDecrypts == 2
MaxCalls == 3
MaxThrows == 1
MaxSend == 2
MaxSockets == 3
MaxAttempts == 10
MaxCallbacks == 3
MaxMessages == 3
\* 10000 in the source, scaled down so that the eviction happens after a few
\* insertions
MAX_TRACKED_EVENTS == 10

(***************************************************************************)
(* Program constants.                                                      *)
(***************************************************************************)
NONCE_SIZE_BYTES == 4
REPLAY_WINDOW_SIZE == 1024
REPLAY_WINDOW_BYTES == REPLAY_WINDOW_SIZE \div 8
TAG_SIZE == 16
UINT32_MAX == 2147483647
ZERO_NONCE == -2147483647 - 1

Nonce(n) == ZERO_NONCE + n

(***************************************************************************)
(* Symbolic byte strings.                                                  *)
(***************************************************************************)
Null == <<>>
Ref(x) == <<x>>
Deref(r) == r[1]

\* Body(value), with value computed once ("const v = value; ...").
Let(value, Body(_)) == CHOOSE y \in {Body(v) : v \in {value}} : TRUE

EmptyBytes == <<"bytes", "", 0>>
Hello == <<"bytes", "hello", 5>>
Payloads == {EmptyBytes, Hello}

K1 == <<"hkdf", <<"zero", 32>>, EmptyBytes, 1>>
K2 == <<"hkdf", <<"zero", 32>>, EmptyBytes, 2>>
Keys == {K1, K2}

RECURSIVE TermLen(_)
TermLen(t) ==
  CASE t[1] = "bytes" -> t[3]
    [] t[1] = "aead"  -> TermLen(t[5]) + TAG_SIZE
    [] t[1] = "frame" -> NONCE_SIZE_BYTES + TermLen(t[3])
    [] t[1] = "zero"  -> t[2]
    [] t[1] = "slice" -> t[4]
    [] OTHER          -> 32

\* chacha20poly1305(key, nonce, ad).encrypt(pt)
Seal(key, nonce, ad, pt) == <<"aead", key, nonce, ad, pt>>

\* chacha20poly1305(key, nonce, ad).decrypt(ct): Ref(pt), or Null when the
\* tag does not verify.
Open(key, nonce, ad, ct) ==
  IF ct[1] = "aead" /\ ct[2] = key /\ ct[3] = nonce /\ ct[4] = ad
  THEN Ref(ct[5]) ELSE Null

(***************************************************************************)
(* Uint8Array and bit arithmetic.                                          *)
(***************************************************************************)
Pow2(k) == 2 ^ k
BitAnd1(b, k) == (b \div Pow2(k)) % 2            \* (b & (1 << k)) !== 0, as 0/1
BitOr1(b, k) == IF BitAnd1(b, k) = 1 THEN b ELSE b + Pow2(k)   \* b | (1 << k)
ShiftR(b, r) == b \div Pow2(r)                   \* b >> r
ShiftL(b, r) == b * Pow2(r)                      \* b << r

\* Reading a typed array out of range yields undefined, and undefined & m is 0;
\* a store out of range is ignored; a store keeps the low 8 bits.
ReadByte(w, i) == IF i \in DOMAIN w THEN w[i] ELSE 0
WriteByte(w, i, v) == IF i \in DOMAIN w THEN [w EXCEPT ![i] = v % 256] ELSE w
ZeroWindow == [i \in 0..(REPLAY_WINDOW_BYTES - 1) |-> 0]

(***************************************************************************)
(* NoiseCipherState                                                        *)
(***************************************************************************)
NewCipherState(key, useExtractedNonce) ==
  [key |-> key, nonce |-> ZERO_NONCE, useExtractedNonce |-> useExtractedNonce,
   highestReceivedNonce |-> ZERO_NONCE, replayWindow |-> ZeroWindow]

initializeKey(c, key) == [c EXCEPT !.key = Ref(key), !.nonce = ZERO_NONCE]

hasKey(c) == c.key # Null

clearSensitiveData(c) ==
  [c EXCEPT !.key = Null, !.nonce = ZERO_NONCE,
            !.highestReceivedNonce = ZERO_NONCE, !.replayWindow = ZeroWindow]

\* currentNonce > BigInt(0xffffffff) - 1n
NonceExceeded(currentNonce) == currentNonce > UINT32_MAX - 1

\* The 4-byte big-endian prefix: setUint32(0, Number(currentNonce)).  encrypt
\* only gets here with currentNonce <= 0xfffffffe, where the conversion to
\* Uint32 and back (getUint32 in decrypt) keeps the value.
NoncePrefix(currentNonce) == currentNonce

\* encrypt that forgets "this.nonce += 1n"
encrypt_noIncrement(c, plaintext, associatedData) ==
  IF c.key = Null THEN [c |-> c, err |-> "UNINITIALIZED_CIPHER", out |-> Null]
  ELSE IF NonceExceeded(c.nonce) THEN [c |-> c, err |-> "NONCE_EXCEEDED", out |-> Null]
  ELSE LET ciphertext == Seal(Deref(c.key), c.nonce, associatedData, plaintext)
       IN [c |-> c, err |-> "",
           out |-> IF c.useExtractedNonce
                   THEN Ref(<<"frame", NoncePrefix(c.nonce), ciphertext>>)
                   ELSE Ref(ciphertext)]

encrypt(c, plaintext, associatedData) ==
  IF ~hasKey(c) THEN [c |-> c, err |-> "UNINITIALIZED_CIPHER", out |-> Null]
  ELSE IF NonceExceeded(c.nonce) THEN [c |-> c, err |-> "NONCE_EXCEEDED", out |-> Null]
  ELSE LET currentNonce == c.nonce
           ciphertext == Seal(Deref(c.key), currentNonce, associatedData, plaintext)
       IN [c   |-> [c EXCEPT !.nonce = currentNonce + 1],
           err |-> "",
           out |-> IF c.useExtractedNonce
                   THEN Ref(<<"frame", NoncePrefix(currentNonce), ciphertext>>)
                   ELSE Ref(ciphertext)]

\* isValidNonce without the "too old - outside window" test
isValidNonce_noAgeCheck(c, receivedNonce) ==
  IF receivedNonce > c.highestReceivedNonce THEN TRUE
  ELSE LET offset == c.highestReceivedNonce - receivedNonce
       IN BitAnd1(ReadByte(c.replayWindow, offset \div 8), offset % 8) = 0

isValidNonce(c, receivedNonce) ==
  LET highest == c.highestReceivedNonce IN
  IF highest >= Nonce(REPLAY_WINDOW_SIZE) /\ receivedNonce <= highest - REPLAY_WINDOW_SIZE
  THEN FALSE
  ELSE IF receivedNonce > highest THEN TRUE
  ELSE LET offset == highest - receivedNonce
           byteIndex == offset \div 8
           bitIndex == offset % 8
       IN BitAnd1(ReadByte(c.replayWindow, byteIndex), bitIndex) = 0

\* The loop of markNonceAsSeen.  It runs i from REPLAY_WINDOW_BYTES - 1 down to 0
\* and reads only bytes sourceByteIndex <= i and sourceByteIndex - 1, which it
\* has not yet overwritten, so every byte is computed from the old array.
ShiftWindow(w, shift) ==
  [i \in DOMAIN w |->
     LET sourceByteIndex == i - (shift \div 8)
         low == IF sourceByteIndex >= 0
                THEN ShiftR(w[sourceByteIndex], shift % 8) ELSE 0
         high == IF sourceByteIndex > 0 /\ shift % 8 # 0
                 THEN ShiftL(w[sourceByteIndex - 1], 8 - (shift % 8)) ELSE 0
         \* low < 2^(8 - shift % 8) and high is a multiple of it: low | high
         newByte == low + high
     IN newByte % 256]

\* shift >= REPLAY_WINDOW_SIZE, for receivedNonce > highest (written so that no
\* intermediate value leaves the 32-bit range of the checker)
ShiftClearsWindow(receivedNonce, highest) ==
  /\ highest <= UINT32_MAX - REPLAY_WINDOW_SIZE
  /\ receivedNonce >= highest + REPLAY_WINDOW_SIZE

markNonceAsSeen(c, receivedNonce) ==
  IF receivedNonce > c.highestReceivedNonce
  THEN LET shifted == IF ShiftClearsWindow(receivedNonce, c.highestReceivedNonce)
                      THEN ZeroWindow
                      ELSE ShiftWindow(c.replayWindow,
                                       receivedNonce - c.highestReceivedNonce)
       IN [c EXCEPT !.highestReceivedNonce = receivedNonce,
                    !.replayWindow = WriteByte(shifted, 0, BitOr1(shifted[0], 0))]
  ELSE LET offset == c.highestReceivedNonce - receivedNonce
           byteIndex == offset \div 8
           bitIndex == offset % 8
       IN [c EXCEPT !.replayWindow =
             WriteByte(@, byteIndex, BitOr1(ReadByte(@, byteIndex), bitIndex))]

\* In extracted-nonce mode the input is a frame: <<"frame", nonce, body>>.
\* (First the variant that advances the counter also when the tag is wrong.)
decrypt_countsFailures(c, ciphertext, associatedData) ==
  LET fail(code) == [c |-> c, err |-> code, out |-> Null, nonce |-> c.nonce] IN
  IF ~hasKey(c) THEN fail("UNINITIALIZED_CIPHER")
  ELSE IF TermLen(ciphertext) < TAG_SIZE THEN fail("INVALID_CIPHERTEXT")
  ELSE IF c.useExtractedNonce /\ TermLen(ciphertext) < NONCE_SIZE_BYTES + TAG_SIZE
       THEN fail("INVALID_CIPHERTEXT")
  ELSE IF c.useExtractedNonce /\ ~isValidNonce(c, ciphertext[2])
       THEN [c |-> c, err |-> "REPLAY_DETECTED", out |-> Null, nonce |-> ciphertext[2]]
  ELSE LET decryptionNonce == IF c.useExtractedNonce THEN ciphertext[2] ELSE c.nonce
           actualCiphertext == IF c.useExtractedNonce THEN ciphertext[3] ELSE ciphertext
           plaintext == Open(Deref(c.key), decryptionNonce, associatedData, actualCiphertext)
       IN IF plaintext = Null
          THEN [c |-> [c EXCEPT !.nonce = @ + 1], err |-> "INVALID_CIPHERTEXT",
                out |-> Null, nonce |-> decryptionNonce]
          ELSE LET marked == IF c.useExtractedNonce
                             THEN markNonceAsSeen(c, decryptionNonce) ELSE c
               IN [c |-> [marked EXCEPT !.nonce = @ + 1], err |-> "",
                   out |-> plaintext, nonce |-> decryptionNonce]

decrypt(c, ciphertext, associatedData) ==
  LET fail(code) == [c |-> c, err |-> code, out |-> Null, nonce |-> c.nonce] IN
  IF ~hasKey(c) THEN fail("UNINITIALIZED_CIPHER")
  ELSE IF TermLen(ciphertext) < TAG_SIZE THEN fail("INVALID_CIPHERTEXT")
  ELSE IF c.useExtractedNonce /\ TermLen(ciphertext) < NONCE_SIZE_BYTES + TAG_SIZE
       THEN fail("INVALID_CIPHERTEXT")
  ELSE IF c.useExtractedNonce /\ ~isValidNonce(c, ciphertext[2])
       THEN [c |-> c, err |-> "REPLAY_DETECTED", out |-> Null, nonce |-> ciphertext[2]]
  ELSE LET decryptionNonce == IF c.useExtractedNonce THEN ciphertext[2] ELSE c.nonce
           actualCiphertext == IF c.useExtractedNonce THEN ciphertext[3] ELSE ciphertext
           plaintext == Open(Deref(c.key), decryptionNonce, associatedData, actualCiphertext)
       IN IF plaintext = Null
          THEN [c |-> c, err |-> "INVALID_CIPHERTEXT", out |-> Null, nonce |-> decryptionNonce]
          ELSE LET marked == IF c.useExtractedNonce
                             THEN markNonceAsSeen(c, decryptionNonce) ELSE c
               IN [c |-> [marked EXCEPT !.nonce = @ + 1], err |-> "",
                   out |-> plaintext, nonce |-> decryptionNonce]

(***************************************************************************)
(* Keys, Diffie-Hellman, hashing                                           *)
(***************************************************************************)
Parties == {"A", "B"}
Peer(s) == IF s = "A" THEN "B" ELSE "A"

\* The k-th X25519 key pair generated by party s; number 0 is its static pair.
PrivateKey(s, k) == <<"priv", s, k>>
PublicKey(s, k) == <<"pub", s, k>>

\* crypto.subtle.deriveBits: the secret shared by a private key and a public key
X25519(localKey, remoteKey) ==
  IF remoteKey[1] = "pub"
  THEN <<"dh", {<<localKey[2], localKey[3]>>, <<remoteKey[2], remoteKey[3]>>}>>
  ELSE <<"dhx", localKey, remoteKey>>

ZeroBytes32 == <<"zero", 32>>

\* all zeros, the order 1 point, the e0eb7a7c... point, all 0xff
LOW_ORDER_POINTS == {ZeroBytes32} \cup {<<"loworder", i>> : i \in 2..4}

(***************************************************************************)
(* Handshake messages: the sequence of the byte strings pushed into        *)
(* messageBuffer, without the empty ones.                                  *)
(***************************************************************************)
RECURSIVE ChunkStart(_, _)
ChunkStart(msg, i) == IF i = 1 THEN 0 ELSE ChunkStart(msg, i - 1) + TermLen(msg[i - 1])
MsgLen(msg) == ChunkStart(msg, Len(msg) + 1)
Push(buf, bytes) == IF TermLen(bytes) = 0 THEN buf ELSE Append(buf, bytes)

\* message.slice(offset, offset + n): one of the strings the writer pushed, or
\* bytes cut across them
Slice(msg, offset, n) ==
  IF n = 0 THEN EmptyBytes
  ELSE IF \E i \in 1..Len(msg) : ChunkStart(msg, i) = offset /\ TermLen(msg[i]) = n
  THEN msg[CHOOSE i \in 1..Len(msg) : ChunkStart(msg, i) = offset /\ TermLen(msg[i]) = n]
  ELSE <<"slice", msg, offset, n>>

(***************************************************************************)
(* NoiseSymmetricState                                                     *)
(***************************************************************************)
\* createProtocolName(pattern).fullName, 32 bytes long for XX, IK and NK
createProtocolName(pattern) == <<"name", pattern>>

NewSymmetricState(protocolName) ==
  [cipherState |-> NewCipherState(Null, FALSE),
   chainingKey |-> protocolName,
   hash |-> protocolName]

hkdf(chainingKey, inputKeyMaterial, numOutputs) ==
  [i \in 1..numOutputs |-> <<"hkdf", chainingKey, inputKeyMaterial, i>>]

mixKey(ss, inputKeyMaterial) ==
  LET output == hkdf(ss.chainingKey, inputKeyMaterial, 2) IN
  [ss EXCEPT !.chainingKey = output[1],
             !.cipherState = initializeKey(@, output[2])]

mixHash(ss, data) == [ss EXCEPT !.hash = <<"sha256", @, data>>]

hasCipherKey(ss) == hasKey(ss.cipherState)

encryptAndHash(ss, plaintext) ==
  IF hasKey(ss.cipherState)
  THEN LET r == encrypt(ss.cipherState, plaintext, ss.hash) IN
       IF r.err # "" THEN [ss |-> ss, err |-> r.err, out |-> Null]
       ELSE [ss |-> mixHash([ss EXCEPT !.cipherState = r.c], Deref(r.out)),
             err |-> "", out |-> r.out]
  ELSE [ss |-> mixHash(ss, plaintext), err |-> "", out |-> Ref(plaintext)]

decryptAndHash(ss, ciphertext) ==
  IF hasKey(ss.cipherState)
  THEN LET r == decrypt(ss.cipherState, ciphertext, ss.hash) IN
       IF r.err # "" THEN [ss |-> ss, err |-> r.err, out |-> Null]
       ELSE [ss |-> mixHash([ss EXCEPT !.cipherState = r.c], ciphertext),
             err |-> "", out |-> r.out]
  ELSE [ss |-> mixHash(ss, ciphertext), err |-> "", out |-> Ref(ciphertext)]

Symmetric_clearSensitiveData(ss) ==
  [cipherState |-> clearSensitiveData(ss.cipherState),
   chainingKey |-> ZeroBytes32,
   hash |-> ZeroBytes32]

split(ss, useExtractedNonce) ==
  LET output == hkdf(ss.chainingKey, EmptyBytes, 2) IN
  [c1 |-> NewCipherState(Ref(output[1]), useExtractedNonce),
   c2 |-> NewCipherState(Ref(output[2]), useExtractedNonce),
   ss |-> Symmetric_clearSensitiveData(ss)]

(***************************************************************************)
(* NoiseHandshakeState                                                     *)
(***************************************************************************)
getMessagePatterns(pattern) ==
  CASE pattern = "XX" -> << <<"e">>, <<"e", "ee", "s", "es">>, <<"s", "se">> >>
    [] pattern = "IK" -> << <<"e", "es", "s", "ss">>, <<"e", "ee", "se">> >>
    [] pattern = "NK" -> << <<"e", "es">>, <<"e", "ee">> >>

Patterns == {"XX", "IK", "NK"}

mixPreMessageKeys(hs) ==
  LET mixed == [hs EXCEPT !.symmetricState = mixHash(@, hs.prologueData)] IN
  IF /\ hs.pattern \in {"IK", "NK"}
     /\ hs.role = "initiator"
     /\ hs.remoteStaticPublic # Null
  THEN [mixed EXCEPT !.symmetricState = mixHash(@, Deref(hs.remoteStaticPublic))]
  ELSE mixed

\* new NoiseHandshakeState(config); localStaticKey and remoteStaticKey are
\* nullable
NewHandshakeState(role, pattern, localStaticKey, remoteStaticKey, prologue) ==
  mixPreMessageKeys(
    [role |-> role, pattern |-> pattern,
     symmetricState |-> NewSymmetricState(createProtocolName(pattern)),
     localStaticPrivate |-> localStaticKey,
     localStaticPublic |-> Null,
     localEphemeralPrivate |-> Null,
     localEphemeralPublic |-> Null,
     remoteStaticPublic |-> remoteStaticKey,
     remoteEphemeralPublic |-> Null,
     currentPattern |-> 0,
     prologueData |-> prologue])

\* keyPair is the pair (s, k)
Handshake_setLocalStaticKey(hs, s, k) ==
  [hs EXCEPT !.localStaticPrivate = Ref(PrivateKey(s, k)),
             !.localStaticPublic = Ref(PublicKey(s, k))]

validatePublicKey(keyData) ==
  IF TermLen(keyData) # 32 THEN "INVALID_PUBLIC_KEY"
  ELSE IF keyData \in LOW_ORDER_POINTS THEN "INVALID_PUBLIC_KEY"
  ELSE ""

performDHOperation(hs, pattern) ==
  LET keys ==
        CASE pattern = "ee" -> <<hs.localEphemeralPrivate, hs.remoteEphemeralPublic>>
          [] pattern = "es" -> IF hs.role = "initiator"
                               THEN <<hs.localEphemeralPrivate, hs.remoteStaticPublic>>
                               ELSE <<hs.localStaticPrivate, hs.remoteEphemeralPublic>>
          [] pattern = "se" -> IF hs.role = "initiator"
                               THEN <<hs.localStaticPrivate, hs.remoteEphemeralPublic>>
                               ELSE <<hs.localEphemeralPrivate, hs.remoteStaticPublic>>
          [] pattern = "ss" -> <<hs.localStaticPrivate, hs.remoteStaticPublic>>
      localKey == keys[1]
      remoteKey == keys[2]
  IN IF localKey = Null \/ remoteKey = Null
     THEN [hs |-> hs, err |-> "MISSING_KEYS"]
     ELSE [hs |-> [hs EXCEPT !.symmetricState =
                      mixKey(@, X25519(Deref(localKey), Deref(remoteKey)))],
           err |-> ""]

isHandshakeComplete(hs) == hs.currentPattern >= Len(getMessagePatterns(hs.pattern))

\* One token of writeMessage.  st is the handshake state, the message buffer
\* and the error thrown so far; ephemeral is the key pair that
\* crypto.subtle.generateKey returns to this call.
WriteToken(st, token, ephemeral) ==
  LET hs == st.hs IN
  CASE token = "e" ->
         LET pub == PublicKey(ephemeral[1], ephemeral[2]) IN
         [hs |-> [hs EXCEPT !.localEphemeralPrivate = Ref(PrivateKey(ephemeral[1], ephemeral[2])),
                            !.localEphemeralPublic = Ref(pub),
                            !.symmetricState = mixHash(@, pub)],
          buf |-> Push(st.buf, pub), err |-> ""]
    [] token = "s" ->
         IF hs.localStaticPublic = Null
         THEN [st EXCEPT !.err = "MISSING_LOCAL_STATIC_KEY"]
         ELSE LET r == encryptAndHash(hs.symmetricState, Deref(hs.localStaticPublic)) IN
              IF r.err # "" THEN [st EXCEPT !.err = r.err]
              ELSE [hs |-> [hs EXCEPT !.symmetricState = r.ss],
                    buf |-> Push(st.buf, Deref(r.out)), err |-> ""]
    [] OTHER ->
         LET r == performDHOperation(hs, token) IN
         [hs |-> r.hs, buf |-> st.buf, err |-> r.err]

RECURSIVE WriteTokens(_, _, _, _)
WriteTokens(st, tokens, i, ephemeral) ==
  IF i > Len(tokens) \/ st.err # "" THEN st
  ELSE Let(WriteToken(st, tokens[i], ephemeral),
           LAMBDA next : WriteTokens(next, tokens, i + 1, ephemeral))

\* The handshake state is left as the tokens processed before a throw made it.
writeMessage(hs, payload, ephemeral) ==
  IF hs.currentPattern >= Len(getMessagePatterns(hs.pattern))
  THEN [hs |-> hs, err |-> "HANDSHAKE_COMPLETE", out |-> Null]
  ELSE LET patterns == getMessagePatterns(hs.pattern)[hs.currentPattern + 1] IN
       Let(WriteTokens([hs |-> hs, buf |-> <<>>, err |-> ""], patterns, 1, ephemeral),
           LAMBDA st :
             IF st.err # "" THEN [hs |-> st.hs, err |-> st.err, out |-> Null]
             ELSE Let(encryptAndHash(st.hs.symmetricState, payload),
                      LAMBDA r :
                        IF r.err # "" THEN [hs |-> st.hs, err |-> r.err, out |-> Null]
                        ELSE [hs |-> [st.hs EXCEPT !.symmetricState = r.ss,
                                                   !.currentPattern = @ + 1],
                              err |-> "",
                              out |-> Ref(Push(st.buf, Deref(r.out)))]))

\* One token of readMessage.  st is the handshake state, the read offset and
\* the error thrown so far.
ReadToken(st, token, message) ==
  LET hs == st.hs IN
  CASE token = "e" ->
         IF MsgLen(message) - st.offset < 32 THEN [st EXCEPT !.err = "INVALID_MESSAGE"]
         ELSE LET ephemeralData == Slice(message, st.offset, 32) IN
              IF validatePublicKey(ephemeralData) # ""
              THEN [st EXCEPT !.offset = @ + 32, !.err = validatePublicKey(ephemeralData)]
              ELSE [hs |-> [hs EXCEPT !.remoteEphemeralPublic = Ref(ephemeralData),
                                      !.symmetricState = mixHash(@, ephemeralData)],
                    offset |-> st.offset + 32, err |-> ""]
    [] token = "s" ->
         LET keyLength == IF hasCipherKey(hs.symmetricState) THEN 48 ELSE 32 IN
         IF MsgLen(message) - st.offset < keyLength THEN [st EXCEPT !.err = "INVALID_MESSAGE"]
         ELSE LET staticData == Slice(message, st.offset, keyLength)
                  r == decryptAndHash(hs.symmetricState, staticData)
              IN IF r.err # ""
                 THEN [st EXCEPT !.offset = @ + keyLength, !.err = "AUTHENTICATION_FAILURE"]
                 ELSE IF validatePublicKey(Deref(r.out)) # ""
                 THEN [hs |-> [hs EXCEPT !.symmetricState = r.ss],
                       offset |-> st.offset + keyLength, err |-> "AUTHENTICATION_FAILURE"]
                 ELSE [hs |-> [hs EXCEPT !.symmetricState = r.ss,
                                         !.remoteStaticPublic = r.out],
                       offset |-> st.offset + keyLength, err |-> ""]
    [] OTHER ->
         LET r == performDHOperation(hs, token) IN
         [hs |-> r.hs, offset |-> st.offset, err |-> r.err]

RECURSIVE ReadTokens(_, _, _, _)
ReadTokens(st, tokens, i, message) ==
  IF i > Len(tokens) \/ st.err # "" THEN st
  ELSE Let(ReadToken(st, tokens[i], message),
           LAMBDA next : ReadTokens(next, tokens, i + 1, message))

readMessage(hs, message) ==
  IF hs.currentPattern >= Len(getMessagePatterns(hs.pattern))
  THEN [hs |-> hs, err |-> "HANDSHAKE_COMPLETE", out |-> Null]
  ELSE LET patterns == getMessagePatterns(hs.pattern)[hs.currentPattern + 1] IN
       Let(ReadTokens([hs |-> hs, offset |-> 0, err |-> ""], patterns, 1, message),
           LAMBDA st :
             IF st.err # "" THEN [hs |-> st.hs, err |-> st.err, out |-> Null]
             ELSE LET encryptedPayload ==
                        Slice(message, st.offset, MsgLen(message) - st.offset)
                  IN Let(decryptAndHash(st.hs.symmetricState, encryptedPayload),
                         LAMBDA r :
                           IF r.err # "" THEN [hs |-> st.hs, err |-> r.err, out |-> Null]
                           ELSE [hs |-> [st.hs EXCEPT !.symmetricState = r.ss,
                                                      !.currentPattern = @ + 1],
                                 err |-> "", out |-> r.out]))

\* getTransportKeys that reads the hash after split() has zeroized it
getTransportKeys_hashAfterSplit(hs, useExtractedNonce) ==
  LET keys == split(hs.symmetricState, useExtractedNonce)
      handshakeHash == keys.ss.hash
  IN IF ~isHandshakeComplete(hs)
     THEN [err |-> "HANDSHAKE_NOT_COMPLETE", sendCipher |-> keys.c1,
           receiveCipher |-> keys.c2, handshakeHash |-> handshakeHash]
     ELSE IF hs.role = "initiator"
     THEN [err |-> "", sendCipher |-> keys.c1, receiveCipher |-> keys.c2,
           handshakeHash |-> handshakeHash]
     ELSE [err |-> "", sendCipher |-> keys.c2, receiveCipher |-> keys.c1,
           handshakeHash |-> handshakeHash]

getTransportKeys(hs, useExtractedNonce) ==
  LET handshakeHash == hs.symmetricState.hash
      keys == split(hs.symmetricState, useExtractedNonce)
  IN IF ~isHandshakeComplete(hs)
     THEN [err |-> "HANDSHAKE_NOT_COMPLETE", sendCipher |-> keys.c1,
           receiveCipher |-> keys.c2, handshakeHash |-> handshakeHash]
     ELSE IF hs.role = "initiator"
     THEN [err |-> "", sendCipher |-> keys.c1, receiveCipher |-> keys.c2,
           handshakeHash |-> handshakeHash]
     ELSE [err |-> "", sendCipher |-> keys.c2, receiveCipher |-> keys.c1,
           handshakeHash |-> handshakeHash]

(***************************************************************************)
(* NoiseSession                                                            *)
(***************************************************************************)
NewSession(role, pattern, localStaticKey, remoteStaticKey, prologue, useExtractedNonce) ==
  [handshakeState |-> Ref(NewHandshakeState(role, pattern, localStaticKey,
                                            remoteStaticKey, prologue)),
   sendCipher |-> Null,
   receiveCipher |-> Null,
   handshakeHash |-> Null,
   remoteStaticKey |-> Null,
   sessionState |-> "handshaking",
   useExtractedNonce |-> useExtractedNonce,
   role |-> role]

\* finalizeHandshake that installs the send cipher in both directions
finalizeHandshake_oneCipherBothWays(sess) ==
  IF sess.handshakeState = Null THEN sess
  ELSE LET keys == getTransportKeys(Deref(sess.handshakeState), sess.useExtractedNonce) IN
       IF keys.err # "" THEN sess
       ELSE [sess EXCEPT !.sendCipher = Ref(keys.sendCipher),
                         !.receiveCipher = Ref(keys.sendCipher),
                         !.handshakeHash = Ref(keys.handshakeHash),
                         !.remoteStaticKey = Deref(sess.handshakeState).remoteStaticPublic,
                         !.handshakeState = Null,
                         !.sessionState = "established"]

finalizeHandshake(sess) ==
  IF sess.handshakeState = Null THEN sess
  ELSE LET keys == getTransportKeys(Deref(sess.handshakeState), sess.useExtractedNonce) IN
       IF keys.err # "" THEN sess
       ELSE [sess EXCEPT !.sendCipher = Ref(keys.sendCipher),
                         !.receiveCipher = Ref(keys.receiveCipher),
                         !.handshakeHash = Ref(keys.handshakeHash),
                         !.remoteStaticKey = Deref(sess.handshakeState).remoteStaticPublic,
                         !.handshakeState = Null,
                         !.sessionState = "established"]

\* The part of writeHandshakeMessage / readHandshakeMessage before the await.
HandshakeEntry(sess) ==
  IF sess.handshakeState = Null THEN "HANDSHAKE_COMPLETE" ELSE ""

\* The part of writeHandshakeMessage / readHandshakeMessage after the await:
\* r is what the awaited writeMessage / readMessage call made of the handshake
\* state object the call started on.  this.handshakeState is read again, and
\* is null when close() ran during the await.
\* (The definition just below is the variant that keeps using the handshake
\* state object the call started on instead of reading this.handshakeState.)
HandshakeResume_capturedState(sess, r) ==
  IF r.err # ""
  THEN [sess |-> IF sess.handshakeState = Null THEN sess
                 ELSE [sess EXCEPT !.handshakeState = Ref(r.hs)],
        err |-> r.err, out |-> Null]
  ELSE LET advanced == [sess EXCEPT !.handshakeState = Ref(r.hs)] IN
       [sess |-> IF isHandshakeComplete(r.hs) THEN finalizeHandshake(advanced) ELSE advanced,
        err |-> "", out |-> r.out]

HandshakeResume(sess, r) ==
  IF r.err # ""
  THEN [sess |-> IF sess.handshakeState = Null THEN sess
                 ELSE [sess EXCEPT !.handshakeState = Ref(r.hs)],
        err |-> r.err, out |-> Null]
  ELSE IF sess.handshakeState = Null
  THEN [sess |-> sess, err |-> "TypeError", out |-> Null]
  ELSE LET advanced == [sess EXCEPT !.handshakeState = Ref(r.hs)] IN
       [sess |-> IF isHandshakeComplete(r.hs) THEN finalizeHandshake(advanced) ELSE advanced,
        err |-> "", out |-> r.out]

Session_encrypt(sess, plaintext, associatedData) ==
  IF sess.sendCipher = Null
  THEN [sess |-> sess, err |-> "HANDSHAKE_NOT_COMPLETE", out |-> Null]
  ELSE LET r == encrypt(Deref(sess.sendCipher), plaintext, associatedData) IN
       [sess |-> [sess EXCEPT !.sendCipher = Ref(r.c)], err |-> r.err, out |-> r.out]

\* decrypt that closes the session when the cipher throws
Session_decrypt_tearsDown(sess, ciphertext, associatedData) ==
  IF sess.receiveCipher = Null
  THEN [sess |-> sess, err |-> "HANDSHAKE_NOT_COMPLETE", out |-> Null]
  ELSE LET r == decrypt(Deref(sess.receiveCipher), ciphertext, associatedData) IN
       IF r.err # ""
       THEN [sess |-> [sess EXCEPT !.sendCipher = Null, !.receiveCipher = Null,
                                   !.handshakeHash = Null, !.remoteStaticKey = Null,
                                   !.sessionState = "closed"],
             err |-> r.err, out |-> Null]
       ELSE [sess |-> [sess EXCEPT !.receiveCipher = Ref(r.c)], err |-> r.err, out |-> r.out]

Session_decrypt(sess, ciphertext, associatedData) ==
  IF sess.receiveCipher = Null
  THEN [sess |-> sess, err |-> "HANDSHAKE_NOT_COMPLETE", out |-> Null]
  ELSE LET r == decrypt(Deref(sess.receiveCipher), ciphertext, associatedData) IN
       [sess |-> [sess EXCEPT !.receiveCipher = Ref(r.c)], err |-> r.err, out |-> r.out]

Session_getHandshakeHash(sess) ==
  IF sess.handshakeHash = Null
  THEN IF sess.handshakeState # Null
       THEN [err |-> "", out |-> Ref(Deref(sess.handshakeState).symmetricState.hash)]
       ELSE [err |-> "HANDSHAKE_NOT_COMPLETE", out |-> Null]
  ELSE [err |-> "", out |-> sess.handshakeHash]

\* The cipher objects and the byte arrays are zeroized and the references
\* dropped; the handshake state is dropped.  (First the variant that leaves
\* the two cipher references in place.)
close_keepsCiphers(sess) ==
  [sess EXCEPT !.handshakeHash = Null,
               !.remoteStaticKey = Null,
               !.handshakeState = Null,
               !.sessionState = "closed"]

close(sess) ==
  [sess EXCEPT !.sendCipher = Null,
               !.receiveCipher = Null,
               !.handshakeHash = Null,
               !.remoteStaticKey = Null,
               !.handshakeState = Null,
               !.sessionState = "closed"]

(***************************************************************************)
(* Two cipher states sharing a key, as split() hands them to the two ends  *)
(* of one direction of a session: snd encrypts, rcv decrypts what arrives. *)
(***************************************************************************)
VARIABLES
  cipher,      \* cipher["snd"], cipher["rcv"]: the two NoiseCipherState objects
  wire,        \* the records snd has emitted under its current key; the network
               \* may deliver any of them, in any order, any number of times
  delivered,   \* per cipher, the bag of the nonces of its successful decrypts
  emitted,     \* the nonces of snd's successful encrypts since its last initializeKey
  bursts,      \* number of EncryptBurst steps taken
  lastOp       \* the last call and its outcome

cipherVars == <<cipher, wire, delivered, emitted, bursts, lastOp>>

(***************************************************************************)
(* Two sessions, the initiator A and the responder B of one handshake.     *)
(***************************************************************************)
VARIABLES
  session,     \* session[s]: the NoiseSession object of party s
  pending,     \* pending[s]: the handshake call of s suspended at its await,
               \* with the handshake state object it runs on, or Null
  net,         \* the handshake messages written so far, as <<sender, message>>
  chan,        \* chan[s]: the transport records s has sent, in order,
               \* each with its plaintext
  consumed,    \* consumed[s]: how many of the peer's records were handed to s
  received,    \* received[s]: the plaintexts s has decrypted, in order
  keygen,      \* keygen[s]: number of ephemeral key pairs generated for s
  calls,       \* calls[s]: number of handshake calls s has started
  result,      \* result[s]: the last call on s and its outcome
  log,         \* log[s]: the handshake calls of s that returned or threw,
               \* in order, each with its outcome
  config       \* the pattern and the nonce mode both sessions were built with

sessionVars == <<session, pending, net, chan, consumed, received, keygen, calls,
                 result, log, config>>

(***************************************************************************)
(* One NostrRelayManager and the MessageDeduplicationService.              *)
(***************************************************************************)
VARIABLES
  mgr,          \* the NostrRelayManager, with the sockets and the timers it
                \* has created that can still call back
  dedup,        \* the MessageDeduplicationService
  onEventCalls, \* the onEvent callbacks invoked so far, in order, each as
                \* <<subscription id, event id>>
  handled       \* the EVENT messages handled so far, each with the relay it
                \* came from and whether its subscription was in the store

relayVars == <<mgr, dedup, onEventCalls, handled>>

VARIABLES
  nostr         \* the Nostr event or ciphertext that was produced, and what
                \* the last call on it returned

nostrVars == <<nostr>>

VARIABLES
  awaiting      \* the promises that the connect() call under observation
                \* awaits, one per relay url, or Null

promiseVars == <<awaiting>>

VARIABLES
  km            \* the KeyManager: the record of the Nostr identity in the key
                \* store, and the calls that are suspended at an await

keyVars == <<km>>

INITIAL_BACKOFF_MS == 1000
MAX_BACKOFF_MS == 300000
BACKOFF_MULTIPLIER == 2
\* CLEANUP_THRESHOLD = MAX_TRACKED_EVENTS * 0.9, in tenths
CLEANUP_THRESHOLD_TENTHS == MAX_TRACKED_EVENTS * 9

Urls == {"r1", "r2", "bad"}
\* the urls new WebSocket(url) throws a SyntaxError for
InvalidUrls == {"bad"}
\* the relayUrls a manager is constructed with
RelayConfigs == {{"r1"}, {"r1", "r2"}, {"bad"}}
SubIds == {"s1", "s2"}
EventIds == 1..2
\* the event ids the dedup service is given in SpecDedup
DedupIds == 1..(MAX_TRACKED_EVENTS + 5)
ReturningIds == 1..3
Messages == {<<"EVENT", subId, id>> : subId \in SubIds, id \in EventIds} \cup {<<"NOTICE">>}

Ends == {"snd", "rcv"}

\* Lengths of the runs of encrypt calls whose records never arrive.
WindowBurst == REPLAY_WINDOW_SIZE - 1
HalfRangeBurst == UINT32_MAX

\* Records the network did not get from snd.
ForgedRecords(useExtractedNonce) ==
  IF useExtractedNonce
  THEN {<<"frame", Nonce(0), <<"bytes", "junk", 8>>>>,
        <<"frame", Nonce(0), <<"bytes", "junk", 14>>>>,
        <<"frame", Nonce(1), <<"bytes", "junk", 21>>>>}
  ELSE {<<"bytes", "junk", 8>>, <<"bytes", "junk", 21>>}

CipherInit ==
  /\ \E mode \in BOOLEAN :
       cipher = [e \in Ends |-> NewCipherState(Ref(K1), mode)]
  /\ wire = {}
  /\ delivered = [e \in Ends |-> EmptyBag]
  /\ emitted = <<>>
  /\ bursts = 0
  /\ lastOp = [op |-> "new", who |-> "snd", err |-> "", nonce |-> ZERO_NONCE]

Encrypt(p) ==
  LET r == encrypt(cipher["snd"], p, EmptyBytes) IN
  /\ Cardinality(wire) < MaxRecords
  /\ cipher' = [cipher EXCEPT !["snd"] = r.c]
  /\ wire' = IF r.err = "" THEN wire \cup {Deref(r.out)} ELSE wire
  /\ emitted' = IF r.err = "" THEN Append(emitted, cipher["snd"].nonce) ELSE emitted
  /\ lastOp' = [op |-> "encrypt", who |-> "snd", err |-> r.err, nonce |-> cipher["snd"].nonce]
  /\ UNCHANGED <<delivered, bursts, sessionVars, relayVars, nostrVars, promiseVars, keyVars>>

\* n successive encrypt calls, all successful, whose records are lost.
EncryptBurst(n) ==
  /\ bursts < MaxBursts
  /\ hasKey(cipher["snd"])
  /\ cipher["snd"].nonce <= UINT32_MAX - n
  /\ ~NonceExceeded(cipher["snd"].nonce + (n - 1))
  /\ cipher' = [cipher EXCEPT !["snd"].nonce = @ + n]
  /\ emitted' = Append(emitted, cipher["snd"].nonce + (n - 1))
  /\ bursts' = bursts + 1
  /\ lastOp' = [op |-> "burst", who |-> "snd", err |-> "", nonce |-> cipher["snd"].nonce + (n - 1)]
  /\ UNCHANGED <<wire, delivered, sessionVars, relayVars, nostrVars, promiseVars, keyVars>>

Decrypt(e, rec) ==
  LET r == decrypt(cipher[e], rec, EmptyBytes) IN
  /\ BagCardinality(delivered[e]) < MaxDeliveries
  /\ cipher[e].nonce < UINT32_MAX
  /\ cipher' = [cipher EXCEPT ![e] = r.c]
  /\ delivered' = IF r.err = "" THEN [delivered EXCEPT ![e] = @ (+) SetToBag({r.nonce})]
                  ELSE delivered
  /\ lastOp' = [op |-> "decrypt", who |-> e, err |-> r.err, nonce |-> r.nonce]
  /\ UNCHANGED <<wire, emitted, bursts, sessionVars, relayVars, nostrVars, promiseVars, keyVars>>

InitializeKey(k) ==
  /\ cipher' = [cipher EXCEPT !["snd"] = initializeKey(@, k)]
  /\ wire' = {}
  /\ emitted' = <<>>
  /\ lastOp' = [op |-> "initializeKey", who |-> "snd", err |-> "", nonce |-> ZERO_NONCE]
  /\ UNCHANGED <<delivered, bursts, sessionVars, relayVars, nostrVars, promiseVars, keyVars>>

ClearSensitiveData ==
  /\ cipher' = [cipher EXCEPT !["snd"] = clearSensitiveData(@)]
  /\ lastOp' = [op |-> "clear", who |-> "snd", err |-> "", nonce |-> ZERO_NONCE]
  /\ UNCHANGED <<wire, delivered, emitted, bursts, sessionVars, relayVars, nostrVars, promiseVars, keyVars>>

(***************************************************************************)
(* The operations of the two sessions                                      *)
(***************************************************************************)
HandshakePayloads == {EmptyBytes}

\* new NoiseSession(config) for both parties; the initiator is configured
\* with remoteStaticKey.
SessionsFor(pattern, useExtractedNonce, remoteStaticKey) ==
  [s \in Parties |->
     NewSession(IF s = "A" THEN "initiator" ELSE "responder", pattern,
                Ref(PrivateKey(s, 0)),
                IF s = "A" THEN remoteStaticKey ELSE Null,
                EmptyBytes, useExtractedNonce)]

\* What an IK or NK initiator is given as the responder's static public key:
\* the key of B, or a low-order point.
RemoteStaticKeys(pattern) ==
  IF pattern \in {"IK", "NK"}
  THEN {Ref(PublicKey("B", 0)), Ref(<<"loworder", 2>>)}
  ELSE {Null}

SessionRest ==
  /\ pending = [s \in Parties |-> Null]
  /\ net = {}
  /\ chan = [s \in Parties |-> <<>>]
  /\ consumed = [s \in Parties |-> 0]
  /\ received = [s \in Parties |-> <<>>]
  /\ keygen = [s \in Parties |-> 0]
  /\ calls = [s \in Parties |-> 0]
  /\ result = [s \in Parties |-> [op |-> "new", err |-> ""]]
  /\ log = [s \in Parties |-> <<>>]

SessionInit ==
  /\ \E pattern \in Patterns : \E mode \in BOOLEAN :
       /\ config = [pattern |-> pattern, useExtractedNonce |-> mode]
       /\ session = SessionsFor(pattern, mode,
                                IF pattern \in {"IK", "NK"} THEN Ref(PublicKey("B", 0))
                                ELSE Null)
  /\ SessionRest

\* Sessions in the default nonce mode, the initiator configured with any of
\* RemoteStaticKeys.
HandshakeInit ==
  /\ \E pattern \in Patterns : \E remoteStaticKey \in RemoteStaticKeys(pattern) :
       /\ config = [pattern |-> pattern, useExtractedNonce |-> TRUE]
       /\ session = SessionsFor(pattern, TRUE, remoteStaticKey)
  /\ SessionRest

\* The sessions while only the cipher states of the first part are exercised.
SessionIdle ==
  /\ config = [pattern |-> "XX", useExtractedNonce |-> TRUE]
  /\ session = SessionsFor("XX", TRUE, Null)
  /\ SessionRest

\* The cipher states of the first part while only the sessions are exercised.
CipherIdle ==
  /\ cipher = [e \in Ends |-> NewCipherState(Ref(K1), TRUE)]
  /\ wire = {}
  /\ delivered = [e \in Ends |-> EmptyBag]
  /\ emitted = <<>>
  /\ bursts = 0
  /\ lastOp = [op |-> "new", who |-> "snd", err |-> "", nonce |-> ZERO_NONCE]

\* The handshake messages the peer of s has written, and messages the
\* network makes up: one too short for a key, one whose ephemeral key is a
\* low-order point.
FromPeer(s) == {m[2] : m \in {n \in net : n[1] = Peer(s)}}
ForgedMessages == {<< <<"bytes", "junk", 8>> >>, << <<"loworder", 2>> >>}

\* session.setLocalStaticKey(keyPair) with the party's static pair
SetLocalStaticKey(s) ==
  /\ pending[s] = Null
  /\ IF session[s].handshakeState = Null
     THEN /\ result' = [result EXCEPT ![s] = [op |-> "setLocalStaticKey", err |-> "HANDSHAKE_COMPLETE"]]
          /\ UNCHANGED session
     ELSE /\ session' = [session EXCEPT ![s].handshakeState =
                           Ref(Handshake_setLocalStaticKey(Deref(@), s, 0))]
          /\ result' = [result EXCEPT ![s] = [op |-> "setLocalStaticKey", err |-> ""]]
  /\ UNCHANGED <<pending, net, chan, consumed, received, keygen, calls, log, config, cipherVars, relayVars, nostrVars, promiseVars, keyVars>>

\* the number of handshake calls that threw
RECURSIVE ThrowsIn(_)
ThrowsIn(l) == IF l = <<>> THEN 0 ELSE (IF l[1].err = "" THEN 0 ELSE 1) + ThrowsIn(Tail(l))
Throws == ThrowsIn(log["A"]) + ThrowsIn(log["B"])

\* writeHandshakeMessage / readHandshakeMessage up to the await
BeginHandshakeCall(s, op, arg) ==
  /\ pending[s] = Null
  /\ calls[s] < MaxCalls
  /\ Throws < MaxThrows
  /\ calls' = [calls EXCEPT ![s] = @ + 1]
  /\ IF HandshakeEntry(session[s]) # ""
     THEN /\ result' = [result EXCEPT ![s] = [op |-> op, err |-> HandshakeEntry(session[s])]]
          /\ log' = [log EXCEPT ![s] = Append(@, [op |-> op, err |-> HandshakeEntry(session[s])])]
          /\ UNCHANGED pending
     ELSE /\ pending' = [pending EXCEPT ![s] =
                           Ref([op |-> op, arg |-> arg, hs |-> Deref(session[s].handshakeState)])]
          /\ UNCHANGED <<result, log>>
  /\ UNCHANGED <<session, net, chan, consumed, received, keygen, config, cipherVars, relayVars, nostrVars, promiseVars, keyVars>>

BeginWrite(s, payload) == BeginHandshakeCall(s, "writeHandshakeMessage", payload)

BeginRead(s, message) == BeginHandshakeCall(s, "readHandshakeMessage", message)

\* What the awaited writeMessage / readMessage call of s makes of the
\* handshake state object it started on; a new ephemeral pair is the next one
\* generated for s.
Awaited(s) ==
  LET call == Deref(pending[s]) IN
  IF call.op = "writeHandshakeMessage"
  THEN writeMessage(call.hs, call.arg, <<s, keygen[s] + 1>>)
  ELSE readMessage(call.hs, call.arg)

\* the call of s resumes after its await and runs to its end
Resume(s) ==
  /\ pending[s] # Null
  /\ \E awaited \in {Awaited(s)} : \E r \in {HandshakeResume(session[s], awaited)} :
     LET call == Deref(pending[s])
         generated == /\ call.op = "writeHandshakeMessage"
                      /\ ~isHandshakeComplete(call.hs)
                      /\ "e" \in {getMessagePatterns(call.hs.pattern)[call.hs.currentPattern + 1][i] :
                                     i \in 1..Len(getMessagePatterns(call.hs.pattern)[call.hs.currentPattern + 1])}
     IN /\ session' = [session EXCEPT ![s] = r.sess]
        /\ result' = [result EXCEPT ![s] = [op |-> call.op, err |-> r.err]]
        /\ log' = [log EXCEPT ![s] = Append(@, [op |-> call.op, err |-> r.err])]
        /\ net' = IF call.op = "writeHandshakeMessage" /\ r.err = ""
                  THEN net \cup {<<s, Deref(r.out)>>} ELSE net
        /\ keygen' = IF generated THEN [keygen EXCEPT ![s] = @ + 1] ELSE keygen
  /\ pending' = [pending EXCEPT ![s] = Null]
  /\ UNCHANGED <<chan, consumed, received, calls, config, cipherVars, relayVars, nostrVars, promiseVars, keyVars>>

Close(s) ==
  /\ session' = [session EXCEPT ![s] = close(@)]
  /\ result' = [result EXCEPT ![s] = [op |-> "close", err |-> ""]]
  /\ UNCHANGED <<pending, net, chan, consumed, received, keygen, calls, log, config, cipherVars, relayVars, nostrVars, promiseVars, keyVars>>

\* session.encrypt(plaintext); the record is sent to the peer
SendRecord(s, plaintext) ==
  LET r == Session_encrypt(session[s], plaintext, EmptyBytes) IN
  /\ Len(chan["A"]) + Len(chan["B"]) < MaxSend
  /\ session' = [session EXCEPT ![s] = r.sess]
  /\ result' = [result EXCEPT ![s] = [op |-> "encrypt", err |-> r.err]]
  /\ chan' = IF r.err = ""
             THEN [chan EXCEPT ![s] = Append(@, [record |-> Deref(r.out), plaintext |-> plaintext])]
             ELSE chan
  /\ UNCHANGED <<pending, net, consumed, received, keygen, calls, log, config, cipherVars, relayVars, nostrVars, promiseVars, keyVars>>

\* session.decrypt(record) on the next record of the peer, in sending order
DeliverRecord(s) ==
  /\ consumed[s] < Len(chan[Peer(s)])
  /\ LET r == Session_decrypt(session[s], chan[Peer(s)][consumed[s] + 1].record, EmptyBytes) IN
       /\ session' = [session EXCEPT ![s] = r.sess]
       /\ result' = [result EXCEPT ![s] = [op |-> "decrypt", err |-> r.err]]
       /\ received' = IF r.err = "" THEN [received EXCEPT ![s] = Append(@, Deref(r.out))]
                      ELSE received
  /\ consumed' = [consumed EXCEPT ![s] = @ + 1]
  /\ UNCHANGED <<pending, net, chan, keygen, calls, log, config, cipherVars, relayVars, nostrVars, promiseVars, keyVars>>

\* session.decrypt(record) on a record the network delivers once more
RedeliverRecord(s, i) ==
  /\ i \in 1..consumed[s]
  /\ Len(received[s]) <= MaxSend
  /\ LET r == Session_decrypt(session[s], chan[Peer(s)][i].record, EmptyBytes) IN
       /\ session' = [session EXCEPT ![s] = r.sess]
       /\ result' = [result EXCEPT ![s] = [op |-> "decrypt", err |-> r.err]]
       /\ received' = IF r.err = "" THEN [received EXCEPT ![s] = Append(@, Deref(r.out))]
                      ELSE received
  /\ UNCHANGED <<pending, net, chan, consumed, keygen, calls, log, config, cipherVars, relayVars, nostrVars, promiseVars, keyVars>>

(***************************************************************************)
(* MessageDeduplicationService (seenEvents, eventOrder).  seenEvents maps  *)
(* an id to the time it was added, which nothing reads: the set of its     *)
(* keys stands for it.                                                     *)
(***************************************************************************)
NewDedup == [seenEvents |-> {}, eventOrder |-> <<>>]

ElementsOf(seq) == {seq[i] : i \in 1..Len(seq)}

\* cleanup that removes only what exceeds the capacity
cleanup_toCapacity(d) ==
  LET toRemove == Len(d.eventOrder) - MAX_TRACKED_EVENTS
      removedIds == SubSeq(d.eventOrder, 1, toRemove)
  IN [seenEvents |-> d.seenEvents \ ElementsOf(removedIds),
      eventOrder |-> SubSeq(d.eventOrder, toRemove + 1, Len(d.eventOrder))]

\* toRemove = length - MAX_TRACKED_EVENTS * 0.9, and splice(0, toRemove) drops
\* the integer part of it; counted here in tenths.
cleanup(d) ==
  LET tenths == Len(d.eventOrder) * 10 - CLEANUP_THRESHOLD_TENTHS IN
  IF tenths <= 0 THEN d
  ELSE LET toRemove == IF tenths \div 10 > Len(d.eventOrder) THEN Len(d.eventOrder)
                       ELSE tenths \div 10
           removedIds == SubSeq(d.eventOrder, 1, toRemove)
       IN [seenEvents |-> d.seenEvents \ ElementsOf(removedIds),
           eventOrder |-> SubSeq(d.eventOrder, toRemove + 1, Len(d.eventOrder))]

\* dup: the id was already seen
markSeenId(d, eventId) ==
  IF eventId \in d.seenEvents THEN [d |-> d, dup |-> TRUE]
  ELSE LET added == [seenEvents |-> d.seenEvents \cup {eventId},
                     eventOrder |-> Append(d.eventOrder, eventId)]
       IN [d |-> IF Len(added.eventOrder) > MAX_TRACKED_EVENTS THEN cleanup(added)
                 ELSE added,
           dup |-> FALSE]

processEvent(d, eventId) ==
  LET r == markSeenId(d, eventId) IN [d |-> r.d, novel |-> ~r.dup]

\* handleMessage without the deduplication
handleMessage_noDedup(d, subscriptions, invoked, message) ==
  IF message[1] = "EVENT"
  THEN LET r == processEvent(d, message[3]) IN
       IF message[2] \in subscriptions
       THEN [d |-> r.d, calls |-> Append(invoked, <<message[2], message[3]>>)]
       ELSE [d |-> r.d, calls |-> invoked]
  ELSE [d |-> d, calls |-> invoked]

\* handleMessage that records the newest invocation first
handleMessage_newestFirst(d, subscriptions, invoked, message) ==
  IF message[1] = "EVENT"
  THEN LET r == processEvent(d, message[3]) IN
       IF ~r.novel THEN [d |-> r.d, calls |-> invoked]
       ELSE IF message[2] \in subscriptions
       THEN [d |-> r.d, calls |-> <<<<message[2], message[3]>>>> \o invoked]
       ELSE [d |-> r.d, calls |-> invoked]
  ELSE [d |-> d, calls |-> invoked]

\* A message is <<"EVENT", subId, event id>> or <<"NOTICE">>; invoked are the
\* onEvent invocations so far.
handleMessage(d, subscriptions, invoked, message) ==
  IF message[1] = "EVENT"
  THEN LET r == processEvent(d, message[3]) IN
       IF ~r.novel THEN [d |-> r.d, calls |-> invoked]
       ELSE IF message[2] \in subscriptions
       THEN [d |-> r.d, calls |-> Append(invoked, <<message[2], message[3]>>)]
       ELSE [d |-> r.d, calls |-> invoked]
  ELSE [d |-> d, calls |-> invoked]

(***************************************************************************)
(* NostrRelayManager.  The manager m holds relayInfo and subscriptions;    *)
(* m.sockets is the bag of the WebSocket objects it has created whose      *)
(* close event has not fired yet, and m.timers the bag of its timeouts     *)
(* that are still pending.  The maps relays and reconnectTimers are the    *)
(* field "registered" of these: the socket (the timer) a url maps to is    *)
(* the one for that url that has registered = TRUE.  The field "info" of a *)
(* socket says whether the RelayInfo object its handlers captured is still *)
(* the one relayInfo holds for the url.                                    *)
(***************************************************************************)
NewRelayInfo == [status |-> "disconnected", reconnectAttempts |-> 0]

NewManager(relayUrls) ==
  [urls |-> relayUrls,
   relayInfo |-> [url \in Urls |-> IF url \in relayUrls THEN Ref(NewRelayInfo) ELSE Null],
   sockets |-> EmptyBag,
   timers |-> EmptyBag,
   subscriptions |-> {},
   issued |-> {},
   created |-> 0]

BagAdd(bag, x) == bag (+) SetToBag({x})
BagRemove(bag, x) == bag (-) SetToBag({x})
Replace(bag, x, y) == BagAdd(BagRemove(bag, x), y)

\* Map.get(url), as a set with at most one element
Registered(bag, url) == {x \in BagToSet(bag) : x.url = url /\ x.registered}

\* Map.delete(url): the object itself stays alive
Deregister(bag, url) ==
  IF Registered(bag, url) = {} THEN bag
  ELSE LET x == CHOOSE x \in Registered(bag, url) : TRUE IN
       Replace(bag, x, [x EXCEPT !.registered = FALSE])

\* WebSocket.close()
Closing(ws) ==
  IF ws.readyState \in {"CONNECTING", "OPEN"} THEN [ws EXCEPT !.readyState = "CLOSING"]
  ELSE ws

\* Send that waits for every relay: nothing is sent while the socket of some
\* configured relay is not open
Send_whenAllOpen(m, url, message) ==
  IF Registered(m.sockets, url) = {} THEN m
  ELSE LET ws == CHOOSE ws \in Registered(m.sockets, url) : TRUE IN
       IF \E other \in Urls :
            /\ m.relayInfo[other] # Null
            /\ \A x \in Registered(m.sockets, other) : x.readyState # "OPEN"
       THEN m
       ELSE [m EXCEPT !.sockets = Replace(@, ws, [ws EXCEPT !.sent = @ \cup {message}])]

\* ws.send(message) on the socket relays holds for url, if it is open
Send(m, url, message) ==
  IF Registered(m.sockets, url) = {} THEN m
  ELSE LET ws == CHOOSE ws \in Registered(m.sockets, url) : TRUE IN
       IF ws.readyState # "OPEN" THEN m
       ELSE [m EXCEPT !.sockets = Replace(@, ws, [ws EXCEPT !.sent = @ \cup {message}])]

RECURSIVE Broadcast(_, _, _)
Broadcast(m, urls, message) ==
  IF urls = {} THEN m
  ELSE LET url == CHOOSE url \in urls : TRUE IN
       Broadcast(Send(m, url, message), urls \ {url}, message)

updateRelayStatus(m, url, status) ==
  IF m.relayInfo[url] = Null THEN m
  ELSE [m EXCEPT !.relayInfo[url] = Ref([Deref(@) EXCEPT !.status = status])]

Min(a, b) == IF a <= b THEN a ELSE b

\* reconnectTimers.set(url, timer) replaces the entry of an earlier timer,
\* which stays pending.
scheduleReconnect(m, url) ==
  IF m.relayInfo[url] = Null THEN m
  ELSE LET attempts == Deref(m.relayInfo[url]).reconnectAttempts + 1
           backoff == Min(INITIAL_BACKOFF_MS * BACKOFF_MULTIPLIER ^ (attempts - 1),
                          MAX_BACKOFF_MS)
       IN [m EXCEPT !.relayInfo[url] = Ref([Deref(@) EXCEPT !.reconnectAttempts = attempts]),
                    !.timers = BagAdd(Deregister(@, url),
                                      [url |-> url, delay |-> backoff, registered |-> TRUE])]

\* new WebSocket(url) throws for the urls in InvalidUrls.
connectToRelay(m, url) ==
  IF m.relayInfo[url] = Null THEN m
  ELSE LET timers1 == m.timers (-) SetToBag(Registered(m.timers, url))
           existing == Registered(m.sockets, url)
           sockets1 == IF existing = {} THEN m.sockets
                       ELSE LET ws == CHOOSE ws \in existing : TRUE IN
                            Replace(m.sockets, ws,
                                    [Closing(ws) EXCEPT !.registered = FALSE])
           m1 == updateRelayStatus([m EXCEPT !.timers = timers1, !.sockets = sockets1],
                                   url, "connecting")
       IN IF url \in InvalidUrls
          THEN scheduleReconnect(updateRelayStatus(m1, url, "error"), url)
          ELSE [m1 EXCEPT !.sockets = BagAdd(@, [url |-> url, readyState |-> "CONNECTING",
                                                 info |-> TRUE, sent |-> {},
                                                 registered |-> TRUE]),
                          !.created = @ + 1]

RECURSIVE ConnectEach(_, _)
ConnectEach(m, urls) ==
  IF urls = {} THEN m
  ELSE LET url == CHOOSE url \in urls : TRUE IN
       ConnectEach(connectToRelay(m, url), urls \ {url})

\* connect(): connectToRelay for every key of relayInfo, each up to its promise
connect(m) == ConnectEach(m, {url \in Urls : m.relayInfo[url] # Null})

sendSubscription(m, url, subId) == Send(m, url, <<"REQ", subId>>)

RECURSIVE Resubscribe(_, _, _)
Resubscribe(m, url, subIds) ==
  IF subIds = {} THEN m
  ELSE LET subId == CHOOSE subId \in subIds : TRUE IN
       Resubscribe(sendSubscription(m, url, subId), url, subIds \ {subId})

\* ws.onopen of the socket ws, its readyState now OPEN
onopen(m, ws) ==
  LET m1 == [m EXCEPT !.sockets = Replace(@, ws, [ws EXCEPT !.readyState = "OPEN"]),
                      !.relayInfo[ws.url] =
                         IF ws.info /\ @ # Null
                         THEN Ref([Deref(@) EXCEPT !.reconnectAttempts = 0]) ELSE @]
      m2 == updateRelayStatus(m1, ws.url, "connected")
  IN Resubscribe(m2, ws.url, m2.subscriptions)

\* ws.onerror
onerror(m, ws) == updateRelayStatus(m, ws.url, "error")

\* ws.onclose of the socket ws, which calls back no more
onclose(m, ws) ==
  LET m1 == [m EXCEPT !.sockets = Deregister(BagRemove(@, ws), ws.url)] IN
  scheduleReconnect(updateRelayStatus(m1, ws.url, "disconnected"), ws.url)

\* the callback of the timeout t
onTimeout(m, t) ==
  connectToRelay([m EXCEPT !.timers = Deregister(BagRemove(@, t), t.url)], t.url)

subscribe(m, subId) ==
  Broadcast([m EXCEPT !.subscriptions = @ \cup {subId}, !.issued = @ \cup {subId}],
            Urls, <<"REQ", subId>>)

unsubscribe(m, subId) ==
  Broadcast([m EXCEPT !.subscriptions = @ \ {subId}], Urls, <<"CLOSE", subId>>)

\* publish(event): the event goes to the sockets that are open now
publish(m, id) == Broadcast(m, Urls, <<"EVENT", id>>)

addRelay(m, url) ==
  IF m.relayInfo[url] # Null THEN m
  ELSE connectToRelay([m EXCEPT !.relayInfo[url] = Ref(NewRelayInfo)], url)

\* The sockets of url after relayInfo.delete(url): the object their handlers
\* captured is no longer in relayInfo.
RECURSIVE Orphaned(_, _)
Orphaned(bag, todo) ==
  IF todo = {} THEN bag
  ELSE LET x == CHOOSE x \in todo : TRUE
           rest == [e \in (DOMAIN bag) \ {x} |-> bag[e]]
       IN Orphaned(rest (+) [e \in {[x EXCEPT !.info = FALSE]} |-> bag[x]], todo \ {x})

removeRelay(m, url) ==
  LET existing == Registered(m.sockets, url)
      sockets1 == IF existing = {} THEN m.sockets
                  ELSE LET ws == CHOOSE ws \in existing : TRUE IN
                       Replace(m.sockets, ws, [Closing(ws) EXCEPT !.registered = FALSE])
  IN [m EXCEPT !.sockets = Orphaned(sockets1, {x \in BagToSet(sockets1) :
                                                 x.url = url /\ x.info}),
               !.timers = @ (-) SetToBag(Registered(@, url)),
               !.relayInfo[url] = Null]

RECURSIVE DeregisterEach(_, _)
DeregisterEach(bag, urls) ==
  IF urls = {} THEN bag
  ELSE LET url == CHOOSE url \in urls : TRUE IN
       DeregisterEach(Deregister(bag, url), urls \ {url})

RECURSIVE CloseEach(_, _)
CloseEach(bag, urls) ==
  IF urls = {} THEN bag
  ELSE LET url == CHOOSE url \in urls : TRUE
           existing == Registered(bag, url)
       IN CloseEach(IF existing = {} THEN bag
                    ELSE LET ws == CHOOSE ws \in existing : TRUE IN
                         Replace(bag, ws, Closing(ws)),
                    urls \ {url})

\* disconnect(): closes the sockets in relays and clears the timers in
\* reconnectTimers, empties both maps, and sets every status.
disconnect(m) ==
  [m EXCEPT !.sockets = DeregisterEach(CloseEach(@, Urls), Urls),
            !.timers = [t \in {t \in DOMAIN @ : ~t.registered} |-> @[t]],
            !.relayInfo = [url \in Urls |->
                             IF @[url] = Null THEN Null
                             ELSE Ref([Deref(@[url]) EXCEPT !.status = "disconnected"])]]

(***************************************************************************)
(* One relay manager and the deduplication service it shares.              *)
(***************************************************************************)
RelayRest ==
  /\ dedup = NewDedup
  /\ onEventCalls = <<>>
  /\ handled = {}

RelayInit ==
  /\ \E relayUrls \in RelayConfigs : mgr = NewManager(relayUrls)
  /\ RelayRest

\* The relay manager while only the Noise part is exercised.
\* Two relays, of which r2 is offline in SpecOffline.
OfflineInit ==
  /\ mgr = NewManager({"r1", "r2"})
  /\ RelayRest

RelayIdle ==
  /\ mgr = NewManager({"r1"})
  /\ RelayRest

\* What the steps of one run may reach.
Bounded(m) ==
  /\ m.created <= MaxSockets
  /\ \A url \in Urls :
       m.relayInfo[url] # Null => Deref(m.relayInfo[url]).reconnectAttempts <= MaxAttempts

Connect ==
  /\ \E m \in {connect(mgr)} : Bounded(m) /\ mgr' = m
  /\ UNCHANGED <<dedup, onEventCalls, handled, cipherVars, sessionVars, nostrVars, promiseVars, keyVars>>

AddRelay(url) ==
  /\ mgr.relayInfo[url] = Null
  /\ \E m \in {addRelay(mgr, url)} : Bounded(m) /\ mgr' = m
  /\ UNCHANGED <<dedup, onEventCalls, handled, cipherVars, sessionVars, nostrVars, promiseVars, keyVars>>

RemoveRelay(url) ==
  /\ mgr.relayInfo[url] # Null
  /\ mgr' = removeRelay(mgr, url)
  /\ UNCHANGED <<dedup, onEventCalls, handled, cipherVars, sessionVars, nostrVars, promiseVars, keyVars>>

Disconnect ==
  /\ mgr' = disconnect(mgr)
  /\ UNCHANGED <<dedup, onEventCalls, handled, cipherVars, sessionVars, nostrVars, promiseVars, keyVars>>

\* crypto.randomUUID() gives an id that was never used
Subscribe(subId) ==
  /\ subId \notin mgr.issued
  /\ mgr' = subscribe(mgr, subId)
  /\ UNCHANGED <<dedup, onEventCalls, handled, cipherVars, sessionVars, nostrVars, promiseVars, keyVars>>

Unsubscribe(subId) ==
  /\ subId \in mgr.subscriptions
  /\ mgr' = unsubscribe(mgr, subId)
  /\ UNCHANGED <<dedup, onEventCalls, handled, cipherVars, sessionVars, nostrVars, promiseVars, keyVars>>

Publish(id) ==
  /\ mgr' = publish(mgr, id)
  /\ UNCHANGED <<dedup, onEventCalls, handled, cipherVars, sessionVars, nostrVars, promiseVars, keyVars>>

\* The open event of a connecting socket.
SocketOpen(ws) ==
  /\ ws \in BagToSet(mgr.sockets)
  /\ ws.readyState = "CONNECTING"
  /\ mgr' = onopen(mgr, ws)
  /\ UNCHANGED <<dedup, onEventCalls, handled, cipherVars, sessionVars, nostrVars, promiseVars, keyVars>>

\* The connection of a socket ends: closed by the manager, by the relay or by
\* the network.  The error event, if any, and the close event run in one task.
SocketClose(ws, failed) ==
  /\ ws \in BagToSet(mgr.sockets)
  /\ \E m \in {onclose(IF failed THEN onerror(mgr, ws) ELSE mgr, ws)} :
       Bounded(m) /\ mgr' = m
  /\ UNCHANGED <<dedup, onEventCalls, handled, cipherVars, sessionVars, nostrVars, promiseVars, keyVars>>

TimerFires(t) ==
  /\ t \in BagToSet(mgr.timers)
  /\ \E m \in {onTimeout(mgr, t)} : Bounded(m) /\ mgr' = m
  /\ UNCHANGED <<dedup, onEventCalls, handled, cipherVars, sessionVars, nostrVars, promiseVars, keyVars>>

\* The message event of an open socket.
HandleMessage(ws, message) ==
  /\ ws \in BagToSet(mgr.sockets)
  /\ ws.readyState = "OPEN"
  /\ Len(onEventCalls) < MaxCallbacks
  /\ \E r \in {handleMessage(dedup, mgr.subscriptions, onEventCalls, message)} :
       /\ dedup' = r.d
       /\ onEventCalls' = r.calls
  /\ handled' = IF message[1] = "EVENT"
                THEN handled \cup {[url |-> ws.url, subId |-> message[2], id |-> message[3],
                                    owner |-> message[2] \in mgr.subscriptions,
                                    seq |-> Cardinality(handled) + 1,
                                    novel |-> processEvent(dedup, message[3]).novel]}
                ELSE handled
  /\ Cardinality(handled') <= MaxMessages
  /\ UNCHANGED <<mgr, cipherVars, sessionVars, nostrVars, promiseVars, keyVars>>

\* markSeenId on the service alone.  Event ids are numbered in the order of
\* their first arrival: eventId is tracked, or it is the next new id, or it is
\* one of the first ReturningIds ids, which arrive again after their eviction.
MarkSeen(eventId) ==
  /\ \/ eventId \in dedup.seenEvents
     \/ eventId \in ReturningIds
     \/ \A id \in dedup.seenEvents : id < eventId
  /\ eventId = 1 \/ \E id \in dedup.seenEvents : eventId <= id + 1
  /\ dedup' = markSeenId(dedup, eventId).d
  /\ UNCHANGED <<mgr, onEventCalls, handled, cipherVars, sessionVars, nostrVars, promiseVars, keyVars>>

(***************************************************************************)
(* Nostr events and NIP-17 private messages (NostrEvent, NostrProtocol).   *)
(* A private key is a name; the public point of a key in OddKeys has an    *)
(* odd Y coordinate.  A public key is its bytes: 32 (x only) or 33 (with   *)
(* the parity prefix).  Hashes, signatures and ciphertexts are terms: a    *)
(* signature names the hash and the key that made it, a ciphertext its     *)
(* nonce, its symmetric key and its plaintext.  A string is <<"str",       *)
(* chars>>, the JSON text of an event <<"json", fields>>.                  *)
(***************************************************************************)
IdentityKeys == {"p1", "p2"}
AttackerKeys == {"a1"}
EphemeralKeys == {"e1", "e2", "e3", "e4"}
OddKeys == {"p2", "a1", "e2", "e4"}
Nonces24 == {"n1", "n2"}
Contents == {<<"str", <<>>>>, <<"str", <<"h", "i">>>>}
Geohashes == {<<"str", <<"u", "4">>>>}
\* Date.now() in seconds, and the offsets randomizedTimestamp draws from
Now == 5000
RandomOffsets == {-900, 899}

Kind_Seal == 13
Kind_DM == 14
Kind_GiftWrap == 1059
Kind_EphemeralEvent == 20000
XCHACHA_NONCE_BYTES == 24
POLY1305_TAG_BYTES == 16

Thrown(message) == [err |-> message, out |-> Null]
Returned(value) == [err |-> "", out |-> Ref(value)]

\* schnorr.getPublicKey: the x coordinate
getPublicKey(privateKey) == [len |-> 32, x |-> privateKey]
\* 0x02 or 0x03 and the x coordinate
Compressed(x, odd) == [len |-> 33, x |-> x, odd |-> odd]

Identity(privateKey) ==
  [privateKey |-> privateKey, publicKeyHex |-> getPublicKey(privateKey)]

\* the bytes of a string or of a JSON text: a JSON object has its two braces
ByteLength(text) == IF text[1] = "str" THEN Len(text[2]) ELSE 2

NewNostrEvent(pubkey, createdAt, kind, tags, content) ==
  [id |-> Null, pubkey |-> pubkey, created_at |-> createdAt, kind |-> kind,
   tags |-> tags, content |-> content, sig |-> Null]

fromDict(dict) ==
  [NewNostrEvent(dict.pubkey, dict.created_at, dict.kind, dict.tags, dict.content)
     EXCEPT !.id = dict.id, !.sig = dict.sig]

toJSON(event) ==
  <<"json", [id |-> event.id, pubkey |-> event.pubkey, created_at |-> event.created_at,
             kind |-> event.kind, tags |-> event.tags, content |-> event.content,
             sig |-> event.sig]>>

JSONparse(text) ==
  IF text[1] = "json" THEN Returned(text[2]) ELSE Thrown("SyntaxError")

calculateEventId(event) ==
  <<"sha256", event.pubkey, event.created_at, event.kind, event.tags, event.content>>

sign(event, privateKey) ==
  [event EXCEPT !.id = calculateEventId(event),
                !.sig = Ref(<<"schnorr", calculateEventId(event), privateKey>>)]

\* hexToBytes or schnorr.verify throws on a signature that is no signature
\* and on a public key that is not 32 bytes; verify catches it
verify(event) ==
  IF event.sig = Null \/ event.id = Null THEN FALSE
  ELSE IF Deref(event.sig)[1] # "schnorr" \/ event.pubkey.len # 32 THEN FALSE
  ELSE /\ Deref(event.sig)[2] = calculateEventId(event)
       /\ getPublicKey(Deref(event.sig)[3]) = event.pubkey

\* ProjectivePoint.fromHex of a compressed key: the public point of the key
\* x, or its negation when the prefix has the other parity
fromHex(publicKey) ==
  [x |-> publicKey.x, negated |-> publicKey.odd # (publicKey.x \in OddKeys)]

\* the shared point of the two keys, or its negation
multiply(pubKeyPoint, privateKey) ==
  [keys |-> {privateKey, pubKeyPoint.x}, negated |-> pubKeyPoint.negated]

\* toRawBytes(true).slice(1): a point and its negation have the same x
XCoordinate(sharedPoint) == <<"ecdh", sharedPoint.keys>>

deriveSharedSecret(privateKey, publicKey) ==
  IF publicKey.len = 32
  THEN Returned(XCoordinate(multiply(fromHex(Compressed(publicKey.x, FALSE)), privateKey)))
  ELSE IF publicKey.len = 33
  THEN Returned(XCoordinate(multiply(fromHex(publicKey), privateKey)))
  ELSE Thrown("INVALID_PUBLIC_KEY")

deriveNIP44V2Key(sharedSecret) == <<"hkdf", sharedSecret, "nip44-v2">>

\* "v2:" and base64url(nonce24 || ciphertext || tag)
Nip44_encrypt(plaintext, recipientPubkey, senderKey, nonce) ==
  LET sharedSecret == deriveSharedSecret(senderKey, recipientPubkey) IN
  IF sharedSecret.err # "" THEN sharedSecret
  ELSE Returned(<<"v2", nonce, deriveNIP44V2Key(Deref(sharedSecret.out)), plaintext>>)

DataLength(ciphertext) ==
  XCHACHA_NONCE_BYTES + ByteLength(ciphertext[4]) + POLY1305_TAG_BYTES

tryDecrypt(ciphertext, recipientKey, pubKeyData) ==
  LET sharedSecret == deriveSharedSecret(recipientKey, pubKeyData) IN
  IF sharedSecret.err # "" THEN sharedSecret
  ELSE IF ciphertext[3] = deriveNIP44V2Key(Deref(sharedSecret.out))
  THEN Returned(ciphertext[4])
  ELSE Thrown("invalid tag")

Nip44_decrypt(ciphertext, senderPubkey, recipientKey) ==
  IF ciphertext[1] # "v2" THEN Thrown("Expected NIP-44 v2 format")
  ELSE IF DataLength(ciphertext) <= XCHACHA_NONCE_BYTES + POLY1305_TAG_BYTES
  THEN Thrown("Ciphertext too short")
  ELSE IF senderPubkey.len = 32
  THEN LET even == tryDecrypt(ciphertext, recipientKey, Compressed(senderPubkey.x, FALSE)) IN
       IF even.err = "" THEN even
       ELSE tryDecrypt(ciphertext, recipientKey, Compressed(senderPubkey.x, TRUE))
  ELSE tryDecrypt(ciphertext, recipientKey, senderPubkey)

\* rnd holds what the call draws: key, nonce and offset
createSeal(rumor, recipientPubkey, senderKey, rnd) ==
  LET encrypted == Nip44_encrypt(toJSON(rumor), recipientPubkey, senderKey, rnd.sealNonce) IN
  IF encrypted.err # "" THEN encrypted
  ELSE Returned(sign(NewNostrEvent(getPublicKey(senderKey), Now + rnd.sealOffset,
                                   Kind_Seal, <<>>, Deref(encrypted.out)),
                     senderKey))

\* createGiftWrap that reuses the timestamp offset of the seal
createGiftWrap_sealOffset(seal, recipientPubkey, rnd) ==
  LET encrypted == Nip44_encrypt(toJSON(seal), recipientPubkey, rnd.wrapKey, rnd.wrapNonce) IN
  IF encrypted.err # "" THEN encrypted
  ELSE Returned(sign(NewNostrEvent(getPublicKey(rnd.wrapKey), Now + rnd.sealOffset,
                                   Kind_GiftWrap, <<<<"p", recipientPubkey>>>>,
                                   Deref(encrypted.out)),
                     rnd.wrapKey))

createGiftWrap(seal, recipientPubkey, rnd) ==
  LET encrypted == Nip44_encrypt(toJSON(seal), recipientPubkey, rnd.wrapKey, rnd.wrapNonce) IN
  IF encrypted.err # "" THEN encrypted
  ELSE Returned(sign(NewNostrEvent(getPublicKey(rnd.wrapKey), Now + rnd.wrapOffset,
                                   Kind_GiftWrap, <<<<"p", recipientPubkey>>>>,
                                   Deref(encrypted.out)),
                     rnd.wrapKey))

\* createPrivateMessage that seals with the identity key of the sender
createPrivateMessage_identitySeal(content, recipientPubkey, senderIdentity, rnd) ==
  LET rumor == NewNostrEvent(senderIdentity.publicKeyHex, Now, Kind_DM, <<>>, content)
      sealedEvent == createSeal(rumor, recipientPubkey, senderIdentity.privateKey, rnd)
  IN IF sealedEvent.err # "" THEN [err |-> sealedEvent.err, out |-> Null, seal |-> Null]
     ELSE createGiftWrap(Deref(sealedEvent.out), recipientPubkey, rnd)
            @@ [seal |-> sealedEvent.out]

\* The result carries the seal as well, which the caller never sees.
createPrivateMessage(content, recipientPubkey, senderIdentity, rnd) ==
  LET rumor == NewNostrEvent(senderIdentity.publicKeyHex, Now, Kind_DM, <<>>, content)
      sealedEvent == createSeal(rumor, recipientPubkey, rnd.sealKey, rnd)
  IN IF sealedEvent.err # "" THEN [err |-> sealedEvent.err, out |-> Null, seal |-> Null]
     ELSE createGiftWrap(Deref(sealedEvent.out), recipientPubkey, rnd)
            @@ [seal |-> sealedEvent.out]

unwrapGiftWrap(giftWrap, recipientKey) ==
  LET decrypted == Nip44_decrypt(giftWrap.content, giftWrap.pubkey, recipientKey) IN
  IF decrypted.err # "" THEN decrypted
  ELSE LET sealDict == JSONparse(Deref(decrypted.out)) IN
       IF sealDict.err # "" THEN sealDict
       ELSE Returned(fromDict(Deref(sealDict.out)))

openSeal(seal, recipientKey) ==
  LET decrypted == Nip44_decrypt(seal.content, seal.pubkey, recipientKey) IN
  IF decrypted.err # "" THEN decrypted
  ELSE LET rumorDict == JSONparse(Deref(decrypted.out)) IN
       IF rumorDict.err # "" THEN rumorDict
       ELSE Returned(fromDict(Deref(rumorDict.out)))

\* decryptPrivateMessage that reports what the seal carries
decryptPrivateMessage_sealFields(giftWrap, recipientIdentity) ==
  LET seal == unwrapGiftWrap(giftWrap, recipientIdentity.privateKey) IN
  IF seal.err # "" THEN seal
  ELSE LET rumor == openSeal(Deref(seal.out), recipientIdentity.privateKey) IN
       IF rumor.err # "" THEN rumor
       ELSE Returned([content |-> Deref(rumor.out).content,
                      senderPubkey |-> Deref(seal.out).pubkey,
                      timestamp |-> Deref(seal.out).created_at])

decryptPrivateMessage(giftWrap, recipientIdentity) ==
  LET seal == unwrapGiftWrap(giftWrap, recipientIdentity.privateKey) IN
  IF seal.err # "" THEN seal
  ELSE LET rumor == openSeal(Deref(seal.out), recipientIdentity.privateKey) IN
       IF rumor.err # "" THEN rumor
       ELSE Returned([content |-> Deref(rumor.out).content,
                      senderPubkey |-> Deref(rumor.out).pubkey,
                      timestamp |-> Deref(rumor.out).created_at])

createEphemeralGeohashEvent(content, geohash, senderIdentity) ==
  sign(NewNostrEvent(senderIdentity.publicKeyHex, Now, Kind_EphemeralEvent,
                     <<<<"g", geohash>>>>, content),
       senderIdentity.privateKey)

\* what one createPrivateMessage draws
Randomness ==
  {rnd \in [sealKey : EphemeralKeys, wrapKey : EphemeralKeys,
            sealNonce : Nonces24, wrapNonce : Nonces24,
            sealOffset : RandomOffsets, wrapOffset : RandomOffsets] :
     rnd.sealKey # rnd.wrapKey}

\* nostr.item is what was produced and is on its way, nostr.result what the
\* last call on it returned.
NostrIdle == nostr = [item |-> Null, result |-> Null]

Item == Deref(nostr.item)

\* by is the private key of the party that runs the call.
Produce(content, recipientKey, senderIdentity, by) ==
  /\ nostr.item = Null
  /\ \E rnd \in Randomness :
       \E r \in {createPrivateMessage(content, getPublicKey(recipientKey),
                                      senderIdentity, rnd)} :
         /\ r.err = ""
         /\ nostr' = [nostr EXCEPT !.item =
                        Ref([op |-> "message", giftWrap |-> Deref(r.out),
                             seal |-> Deref(r.seal), content |-> content,
                             recipient |-> recipientKey, sender |-> senderIdentity,
                             by |-> by, now |-> Now])]
  /\ UNCHANGED <<cipherVars, sessionVars, relayVars, promiseVars, keyVars>>

CreatePrivateMessage(content, recipientKey, senderKey) ==
  Produce(content, recipientKey, Identity(senderKey), senderKey)

\* A party calls createPrivateMessage with the public key of somebody else.
ForgePrivateMessage(content, recipientKey, claimedKey, attackerKey) ==
  /\ claimedKey # attackerKey
  /\ Produce(content, recipientKey,
             [privateKey |-> attackerKey, publicKeyHex |-> getPublicKey(claimedKey)],
             attackerKey)

DecryptPrivateMessage(recipientKey) ==
  /\ nostr.item # Null
  /\ Item.op = "message"
  /\ nostr' = [nostr EXCEPT !.result =
                 Ref([who |-> recipientKey,
                      r |-> decryptPrivateMessage(Item.giftWrap, Identity(recipientKey))])]
  /\ UNCHANGED <<cipherVars, sessionVars, relayVars, promiseVars, keyVars>>

CreateEphemeralGeohashEvent(content, geohash, senderKey) ==
  /\ nostr.item = Null
  /\ nostr' = [nostr EXCEPT !.item =
                 Ref([op |-> "event",
                      event |-> createEphemeralGeohashEvent(content, geohash,
                                                            Identity(senderKey))])]
  /\ UNCHANGED <<cipherVars, sessionVars, relayVars, promiseVars, keyVars>>

\* encrypt and decrypt of NIP-44 on their own
Nip44Encrypt(plaintext, recipientKey, senderKey) ==
  /\ nostr.item = Null
  /\ \E nonce \in Nonces24 :
       \E r \in {Nip44_encrypt(plaintext, getPublicKey(recipientKey), senderKey, nonce)} :
         /\ r.err = ""
         /\ nostr' = [nostr EXCEPT !.item =
                        Ref([op |-> "ciphertext", ciphertext |-> Deref(r.out),
                             plaintext |-> plaintext, recipient |-> recipientKey,
                             sender |-> senderKey])]
  /\ UNCHANGED <<cipherVars, sessionVars, relayVars, promiseVars, keyVars>>

Nip44Decrypt(recipientKey) ==
  /\ nostr.item # Null
  /\ Item.op = "ciphertext"
  /\ nostr' = [nostr EXCEPT !.result =
                 Ref([who |-> recipientKey,
                      r |-> Nip44_decrypt(Item.ciphertext, getPublicKey(Item.sender),
                                          recipientKey)])]
  /\ UNCHANGED <<cipherVars, sessionVars, relayVars, promiseVars, keyVars>>

(***************************************************************************)
(* connect() and the promises it awaits.  connect() collects the promise   *)
(* of one connectToRelay call per relay and awaits Promise.allSettled of   *)
(* them.  The promise of a connectToRelay call is resolved by the onopen   *)
(* handler of the socket the call created, or in the catch block when new  *)
(* WebSocket throws; no other handler holds its resolve function.          *)
(* awaiting[url] is "pending" while that socket can still open,            *)
(* "resolved" once resolve() ran, and "abandoned" when the socket closed   *)
(* before it opened; "none" for a url that is not configured.  The call    *)
(* observed is the first connect() of a manager, so that the socket of a   *)
(* pending promise is the only socket to its url.                          *)
(***************************************************************************)
PromiseIdle == awaiting = Null

Promises == Deref(awaiting)

\* the promises of connect(), right after its loop
NewPromises(m) ==
  [url \in Urls |-> IF m.relayInfo[url] = Null THEN "none"
                    ELSE IF url \in InvalidUrls THEN "resolved"
                    ELSE "pending"]

\* what becomes of the promise for url when its socket opens (to = "resolved")
\* or closes (to = "abandoned")
Outcome(promises, url, to) ==
  IF promises[url] = "pending" THEN [promises EXCEPT ![url] = to] ELSE promises

\* Promise.allSettled(promises) has settled, and connect() returns
ConnectSettled == \A url \in Urls : Promises[url] \in {"none", "resolved"}

AwaitConnect ==
  /\ awaiting = Null
  /\ mgr.created = 0
  /\ \E m \in {connect(mgr)} : Bounded(m) /\ mgr' = m
  /\ awaiting' = Ref(NewPromises(mgr))
  /\ UNCHANGED <<dedup, onEventCalls, handled, cipherVars, sessionVars, nostrVars, keyVars>>

\* The open event of a connecting socket, after connect() was called.
AwaitedSocketOpen(ws) ==
  /\ awaiting # Null
  /\ ws \in BagToSet(mgr.sockets)
  /\ ws.readyState = "CONNECTING"
  /\ mgr' = onopen(mgr, ws)
  /\ awaiting' = Ref(Outcome(Promises, ws.url, "resolved"))
  /\ UNCHANGED <<dedup, onEventCalls, handled, cipherVars, sessionVars, nostrVars, keyVars>>

\* The error and close events of a socket, after connect() was called.
AwaitedSocketClose(ws, failed) ==
  /\ awaiting # Null
  /\ ws \in BagToSet(mgr.sockets)
  /\ \E m \in {onclose(IF failed THEN onerror(mgr, ws) ELSE mgr, ws)} :
       Bounded(m) /\ mgr' = m
  /\ awaiting' = Ref(IF ws.readyState = "CONNECTING"
                     THEN Outcome(Promises, ws.url, "abandoned") ELSE Promises)
  /\ UNCHANGED <<dedup, onEventCalls, handled, cipherVars, sessionVars, nostrVars, keyVars>>

(***************************************************************************)
(* KeyManager and the Nostr identity.  km.store is the record that the key *)
(* store holds under NOSTR_IDENTITY_ID, a key or Null; km.settings is the  *)
(* state of useSettingsStore; km.call[c] is the initialize() call of the   *)
(* caller c, which runs getOrCreateNostrIdentity and is suspended at the   *)
(* await of db.get (pc "get") or of db.put (pc "put").  A key that         *)
(* randomPrivateKey returns is <<"random", n>>, different at every call.   *)
(***************************************************************************)
Callers == {"c1", "c2"}
ImportedKeys == {<<"nsec", 1>>}
MaxWipes == 2

NewKeyManager ==
  [store |-> Null,
   minted |-> 0,
   wipes |-> 0,
   settings |-> [identity |-> Null, initialized |-> FALSE],
   call |-> [c \in Callers |-> [pc |-> "idle", key |-> Null, returned |-> Null]]]

KeyIdle == km = NewKeyManager

\* getOrCreateNostrIdentity returns identity to initialize(), which sets the
\* identity of the settings store
Return(k, c, identity) ==
  [k EXCEPT !.call[c] = [pc |-> "done", key |-> Null, returned |-> identity],
            !.settings = [identity |-> identity, initialized |-> TRUE]]

\* initialize() up to the await of db.get in getOrCreateNostrIdentity
Initialize(c) ==
  /\ km.call[c].pc = "idle"
  /\ km' = IF km.settings.initialized
           THEN [km EXCEPT !.call[c].pc = "done"]
           ELSE [km EXCEPT !.call[c].pc = "get"]
  /\ UNCHANGED <<cipherVars, sessionVars, relayVars, nostrVars, promiseVars>>

\* db.get has read the store: the call returns the identity it found, or
\* generates a key and goes on to the await of db.put
GetCompletes(c) ==
  /\ km.call[c].pc = "get"
  /\ km' = IF km.store # Null THEN Return(km, c, km.store)
           ELSE [km EXCEPT !.minted = @ + 1,
                           !.call[c] = [pc |-> "put", key |-> Ref(<<"random", km.minted + 1>>),
                                        returned |-> Null]]
  /\ UNCHANGED <<cipherVars, sessionVars, relayVars, nostrVars, promiseVars>>

\* db.put has written the store: the call returns the key it generated
PutCompletes(c) ==
  /\ km.call[c].pc = "put"
  /\ km' = Return([km EXCEPT !.store = km.call[c].key], c, km.call[c].key)
  /\ UNCHANGED <<cipherVars, sessionVars, relayVars, nostrVars, promiseVars>>

DeleteAllKeys ==
  /\ km.wipes < MaxWipes
  /\ km' = [km EXCEPT !.store = Null, !.wipes = @ + 1]
  /\ UNCHANGED <<cipherVars, sessionVars, relayVars, nostrVars, promiseVars>>

ImportNostrIdentity(key) ==
  /\ km.wipes < MaxWipes
  /\ km' = [km EXCEPT !.store = Ref(key), !.wipes = @ + 1]
  /\ UNCHANGED <<cipherVars, sessionVars, relayVars, nostrVars, promiseVars>>

vars == <<cipher, wire, delivered, emitted, bursts, lastOp,
         session, pending, net, chan, consumed, received, keygen, calls, result,
         log, config, mgr, dedup, onEventCalls, handled, nostr, awaiting, km>>

\* The two cipher states right after construction, with no session in use.
CipherWorldInit == CipherInit /\ SessionIdle /\ RelayIdle /\ NostrIdle /\ PromiseIdle /\ KeyIdle

\* One direction of a session: the sender encrypts, the network loses,
\* reorders and repeats records, the receiver decrypts.
ReplayNext ==
  \/ Encrypt(Hello)
  \/ EncryptBurst(WindowBurst)
  \/ \E rec \in wire \cup ForgedRecords(cipher["rcv"].useExtractedNonce) :
       Decrypt("rcv", rec)

SpecReplay == CipherWorldInit /\ [][ReplayNext]_vars

\* What a cipher state in step with c (same key, same counter, as the two
\* symmetric states of a handshake are) sends next.
PeerRecords(c) ==
  LET r == encrypt(c, Hello, EmptyBytes) IN
  IF r.err = "" THEN {Deref(r.out)} ELSE {}

\* Every operation of NoiseCipherState on one object.
CounterNext ==
  \/ Cardinality(wire) < MaxRun /\ Encrypt(Hello)
  \/ EncryptBurst(HalfRangeBurst)
  \/ \E rec \in PeerRecords(cipher["snd"])
                 \cup ForgedRecords(cipher["snd"].useExtractedNonce) :
       BagCardinality(delivered["snd"]) < MaxSndDecrypts /\ Decrypt("snd", rec)
  \/ \E k \in Keys : InitializeKey(k)
  \/ ClearSensitiveData

SpecCounter == CipherWorldInit /\ [][CounterNext]_vars

Init == SessionInit /\ CipherIdle /\ RelayIdle /\ NostrIdle /\ PromiseIdle /\ KeyIdle

Next ==
  \/ \E s \in Parties : SetLocalStaticKey(s)
  \/ \E s \in Parties : \E payload \in HandshakePayloads : BeginWrite(s, payload)
  \/ \E s \in Parties : \E message \in FromPeer(s) : BeginRead(s, message)
  \/ \E s \in Parties : Resume(s)
  \/ \E s \in Parties : Close(s)
  \/ \E s \in Parties : SendRecord(s, Hello)
  \/ \E s \in Parties : DeliverRecord(s)
  \/ \E s \in Parties : \E i \in 1..consumed[s] : RedeliverRecord(s, i)

Spec == Init /\ [][Next]_vars

\* The handshake alone, on a network that also makes up messages.
HandshakeNext ==
  \/ \E s \in Parties : SetLocalStaticKey(s)
  \/ \E s \in Parties : \E payload \in HandshakePayloads : BeginWrite(s, payload)
  \/ \E s \in Parties : \E message \in FromPeer(s) \cup ForgedMessages :
       BeginRead(s, message)
  \/ \E s \in Parties : Resume(s)

HandshakeWorldInit == HandshakeInit /\ CipherIdle /\ RelayIdle /\ NostrIdle /\ PromiseIdle /\ KeyIdle

SpecHandshake == HandshakeWorldInit /\ [][HandshakeNext]_vars

RelayWorldInit == RelayInit /\ CipherIdle /\ SessionIdle /\ NostrIdle /\ PromiseIdle /\ KeyIdle

\* The connections of the manager: the application connects, subscribes, adds
\* and removes relays; sockets open and close; timers fire.
RelayNext ==
  \/ Connect
  \/ \E url \in mgr.urls : AddRelay(url)
  \/ \E url \in mgr.urls : RemoveRelay(url)
  \/ Disconnect
  \/ \E subId \in SubIds : Subscribe(subId)
  \/ \E subId \in SubIds : Unsubscribe(subId)
  \/ \E ws \in BagToSet(mgr.sockets) : SocketOpen(ws)
  \/ \E ws \in BagToSet(mgr.sockets) : \E failed \in BOOLEAN : SocketClose(ws, failed)
  \/ \E t \in BagToSet(mgr.timers) : TimerFires(t)

SpecRelay == RelayWorldInit /\ [][RelayNext]_vars

\* The events the relays send on the sockets of one connect() that stay open.
EventsNext ==
  \/ mgr.created = 0 /\ Connect
  \/ \E subId \in SubIds : Subscribe(subId)
  \/ \E ws \in BagToSet(mgr.sockets) : SocketOpen(ws)
  \/ \E ws \in BagToSet(mgr.sockets) : \E message \in Messages : HandleMessage(ws, message)

SpecEvents == RelayWorldInit /\ [][EventsNext]_vars

OfflineWorldInit == OfflineInit /\ CipherIdle /\ SessionIdle /\ NostrIdle /\ PromiseIdle /\ KeyIdle

\* The relay r1 answers and stays connected; every connection to r2 fails.
OfflineNext ==
  \/ mgr.created = 0 /\ Connect
  \/ \E subId \in SubIds : Subscribe(subId)
  \/ \E id \in EventIds : Publish(id)
  \/ \E ws \in BagToSet(mgr.sockets) : ws.url = "r1" /\ SocketOpen(ws)
  \/ \E ws \in BagToSet(mgr.sockets) : ws.url = "r2" /\ SocketClose(ws, TRUE)
  \/ \E t \in BagToSet(mgr.timers) : TimerFires(t)
  \/ \E ws \in BagToSet(mgr.sockets) : \E message \in Messages :
       ws.url = "r1" /\ HandleMessage(ws, message)

\* The browser delivers the open event of a socket whose relay answers.
SpecOffline ==
  /\ OfflineWorldInit
  /\ [][OfflineNext]_vars
  /\ WF_vars(\E ws \in BagToSet(mgr.sockets) : ws.url = "r1" /\ SocketOpen(ws))

\* One connect() on a new manager; the browser delivers the events of the
\* sockets and runs the timers that are due.
ConnectNext ==
  \/ AwaitConnect
  \/ \E subId \in SubIds : Subscribe(subId)
  \/ \E ws \in BagToSet(mgr.sockets) : AwaitedSocketOpen(ws)
  \/ \E ws \in BagToSet(mgr.sockets) : \E failed \in BOOLEAN : AwaitedSocketClose(ws, failed)
  \/ \E t \in BagToSet(mgr.timers) : TimerFires(t)

SpecConnect ==
  /\ RelayWorldInit
  /\ [][ConnectNext]_vars
  /\ WF_vars(\E ws \in BagToSet(mgr.sockets) :
               /\ ws.readyState = "CONNECTING"
               /\ \/ AwaitedSocketOpen(ws)
                  \/ \E failed \in BOOLEAN : AwaitedSocketClose(ws, failed))
  /\ WF_vars(\E t \in BagToSet(mgr.timers) : TimerFires(t))

KeyWorldInit == KeyIdle /\ CipherIdle /\ SessionIdle /\ RelayIdle /\ NostrIdle /\ PromiseIdle

\* The initialize() calls of the application, each suspended and resumed at
\* its awaits, and the two operations that replace or remove the identity.
KeyNext ==
  \/ \E c \in Callers : Initialize(c)
  \/ \E c \in Callers : GetCompletes(c)
  \/ \E c \in Callers : PutCompletes(c)
  \/ DeleteAllKeys
  \/ \E key \in ImportedKeys : ImportNostrIdentity(key)

SpecKeys == KeyWorldInit /\ [][KeyNext]_vars

DedupWorldInit == RelayIdle /\ CipherIdle /\ SessionIdle /\ NostrIdle /\ PromiseIdle /\ KeyIdle

DedupNext == \E eventId \in DedupIds : MarkSeen(eventId)

SpecDedup == DedupWorldInit /\ [][DedupNext]_vars

NostrWorldInit == NostrIdle /\ CipherIdle /\ SessionIdle /\ RelayIdle /\ PromiseIdle /\ KeyIdle

\* One event or ciphertext is produced, by a party or by an attacker, and the
\* parties call decrypt on it.
NostrNext ==
  \/ \E content \in Contents : \E recipientKey, senderKey \in IdentityKeys \cup AttackerKeys :
       CreatePrivateMessage(content, recipientKey, senderKey)
  \/ \E content \in Contents : \E recipientKey, claimedKey \in IdentityKeys :
       \E attackerKey \in AttackerKeys :
         ForgePrivateMessage(content, recipientKey, claimedKey, attackerKey)
  \/ \E recipientKey \in IdentityKeys \cup AttackerKeys : DecryptPrivateMessage(recipientKey)
  \/ \E content \in Contents : \E geohash \in Geohashes : \E senderKey \in IdentityKeys :
       CreateEphemeralGeohashEvent(content, geohash, senderKey)
  \/ \E plaintext \in Contents : \E recipientKey, senderKey \in IdentityKeys :
       Nip44Encrypt(plaintext, recipientKey, senderKey)
  \/ \E recipientKey \in IdentityKeys \cup AttackerKeys : Nip44Decrypt(recipientKey)

SpecNostr == NostrWorldInit /\ [][NostrNext]_vars

TypeOK == bursts \in 0..MaxBursts

(***************************************************************************)
(* Replay protection (SpecReplay)                                          *)
(***************************************************************************)
rcv == cipher["rcv"]
snd == cipher["snd"]

IsRecord(rec) == rec[1] = "frame" /\ TermLen(rec) >= NONCE_SIZE_BYTES + TAG_SIZE

\* received <= highest - 1024
TooOld(c, n) ==
  /\ c.highestReceivedNonce >= Nonce(REPLAY_WINDOW_SIZE)
  /\ n <= c.highestReceivedNonce - REPLAY_WINDOW_SIZE

\* C1: in extracted-nonce mode the receive cipher accepts each nonce value at
\* most once, whatever the order and the repetitions of the deliveries.
C1_AcceptedAtMostOnce ==
  rcv.useExtractedNonce =>
    \A n \in BagToSet(delivered["rcv"]) : CopiesIn(n, delivered["rcv"]) <= 1

\* C2: in extracted-nonce mode an authentic record whose nonce was not accepted
\* before and is greater than highest_received - 1024 is accepted.
C2_FreshInWindowAccepted ==
  rcv.useExtractedNonce =>
    \A rec \in wire :
      (/\ ~BagIn(rec[2], delivered["rcv"])
       /\ ~TooOld(rcv, rec[2]))
      => decrypt(rcv, rec, EmptyBytes).err = ""

\* C3: in every reachable state of a receive cipher in extracted-nonce mode, a
\* record whose nonce is at most highest_received - 1024 is rejected with
\* REPLAY_DETECTED and the cipher state (highest_received, window, counter)
\* is left as it was.
C3_TooOldRejected ==
  rcv.useExtractedNonce =>
    \A rec \in wire \cup ForgedRecords(TRUE) :
      (IsRecord(rec) /\ TooOld(rcv, rec[2]))
      => LET r == decrypt(rcv, rec, EmptyBytes)
         IN r.err = "REPLAY_DETECTED" /\ r.c = rcv

C3_Witness ==
  /\ lastOp.op = "decrypt" /\ lastOp.who = "rcv"
  /\ lastOp.err = "REPLAY_DETECTED"
  /\ TooOld(rcv, lastOp.nonce)

(***************************************************************************)
(* The send counter (SpecCounter)                                          *)
(***************************************************************************)
\* C4: encrypt fails with NONCE_EXCEEDED only when the counter is greater than
\* 2^32 - 1 (lastOp.nonce is the counter the call found).
C4_ExceededOnlyAboveUint32Max ==
  (lastOp.op = "encrypt" /\ lastOp.err = "NONCE_EXCEEDED") => lastOp.nonce > UINT32_MAX

\* C5: between two initializeKey calls the nonces used by the successful
\* encrypt calls of one cipher state are strictly increasing, and each record
\* on the wire carries as prefix the nonce it was sealed with, one of them.
C5_NoncesStrictlyIncreasing ==
  /\ \A i, j \in 1..Len(emitted) : i < j => emitted[i] < emitted[j]
  /\ \A rec \in wire :
       rec[1] = "frame" =>
         /\ rec[2] = rec[3][3]
         /\ \E i \in 1..Len(emitted) : emitted[i] = rec[2]
  /\ snd.useExtractedNonce =>
       \A r1, r2 \in wire : r1[2] = r2[2] => r1 = r2

C5_Witness ==
  /\ Len(emitted) >= 3
  /\ BagCardinality(delivered["snd"]) >= 1
  /\ lastOp.op = "encrypt" /\ lastOp.err = ""
  /\ Cardinality(wire) >= 2

(***************************************************************************)
(* The handshake and the session (Spec)                                    *)
(***************************************************************************)
Established(s) == session[s].sessionState = "established"

Ok(op) == [op |-> op, err |-> ""]

\* The handshake calls of a completed handshake: the initiator A wrote the
\* odd messages of the pattern and read the even ones, the responder B did
\* the opposite, every call returned, and no other handshake call was made.
HandshakeRun ==
  LET n == Len(getMessagePatterns(config.pattern)) IN
  /\ log["A"] = [i \in 1..n |-> IF i % 2 = 1 THEN Ok("writeHandshakeMessage")
                                              ELSE Ok("readHandshakeMessage")]
  /\ log["B"] = [i \in 1..n |-> IF i % 2 = 1 THEN Ok("readHandshakeMessage")
                                              ELSE Ok("writeHandshakeMessage")]

\* A wrote message 1, B read it and wrote message 2, A read it and wrote
\* message 3, B read it, and nobody closed.
XXHandshakeRun ==
  /\ config.pattern = "XX"
  /\ HandshakeRun
  /\ \A s \in Parties : session[s].sessionState # "closed"

\* C6: after the three messages of an XX handshake, written and read in turn,
\* both sessions are established and getHandshakeHash returns on both the same
\* value, the transcript hash up to the last ciphertext of message 3 and not
\* the zeroized hash that split leaves behind.
C6_XXHandshakeHash ==
  XXHandshakeRun =>
    LET hA == Session_getHandshakeHash(session["A"])
        hB == Session_getHandshakeHash(session["B"])
    IN /\ \A s \in Parties : Established(s)
       /\ hA.err = "" /\ hB.err = ""
       /\ hA.out = hB.out
       /\ Deref(hA.out) # ZeroBytes32
       /\ Deref(hA.out)[1] = "sha256"
       /\ \E m \in net : m[1] = "A" /\ Deref(hA.out)[3] = m[2][Len(m[2])]

C6_Witness ==
  /\ XXHandshakeRun
  /\ result["B"] = Ok("readHandshakeMessage")
  /\ Cardinality(net) = 3

\* every record s sent was decrypted by its peer, in sending order
InStep(s) ==
  /\ consumed[Peer(s)] = Len(chan[s])
  /\ Len(received[Peer(s)]) = Len(chan[s])

\* C7: when both sessions completed a handshake, the initiator sends with
\* c1 and the responder receives with c1, the responder sends with c2 and the
\* initiator receives with c2; what one side encrypts the other decrypts to
\* the same payload, for the records already delivered in sending order and
\* for every payload sent next.
C7_TransportKeysPaired ==
  (HandshakeRun /\ \A s \in Parties : Established(s)) =>
    /\ \A s \in Parties :
         /\ session[s].sendCipher # Null /\ session[Peer(s)].receiveCipher # Null
         /\ Deref(session[s].sendCipher).key = Deref(session[Peer(s)].receiveCipher).key
         /\ Deref(Deref(session[s].sendCipher).key)[1] = "hkdf"
         /\ Deref(Deref(session[s].sendCipher).key)[4] = (IF s = "A" THEN 1 ELSE 2)
    /\ \A s \in Parties :
         InStep(s) =>
           /\ \A i \in 1..Len(chan[s]) : received[Peer(s)][i] = chan[s][i].plaintext
           /\ \A payload \in Payloads :
                LET e == Session_encrypt(session[s], payload, EmptyBytes)
                    d == Session_decrypt(session[Peer(s)], Deref(e.out), EmptyBytes)
                IN e.err = "" /\ d.err = "" /\ d.out = Ref(payload)

C7_Witness ==
  /\ HandshakeRun
  /\ \A s \in Parties : Established(s)
  /\ \A s \in Parties : Len(chan[s]) >= 1 /\ InStep(s)
  /\ received["B"][1] = Hello
  /\ result["B"] = Ok("decrypt")

\* C8: for IK and NK both roles have mixed the responder's static public key
\* into the handshake hash at initialization, so the hashes of initiator and
\* responder are equal before message 1.
C8_PreMessageHashesEqual ==
  (/\ config.pattern \in {"IK", "NK"}
   /\ \A s \in Parties : calls[s] = 0 /\ session[s].handshakeState # Null
   /\ Deref(session["A"].handshakeState).remoteStaticPublic = Ref(PublicKey("B", 0)))
  => Deref(session["A"].handshakeState).symmetricState.hash
       = Deref(session["B"].handshakeState).symmetricState.hash

\* The records a session may be handed.
SomeRecords ==
  UNION {{chan[s][i].record : i \in 1..Len(chan[s])} : s \in Parties}
    \cup ForgedRecords(config.useExtractedNonce)

C9_StateOK(s) ==
  LET sess == session[s] IN
  /\ sess.sessionState \in {"handshaking", "established", "closed"}
  /\ sess.sessionState = "established"
       <=> (sess.sendCipher # Null /\ sess.receiveCipher # Null /\ sess.handshakeState = Null)
  /\ sess.sessionState # "established" =>
       /\ \A p \in Payloads :
            Session_encrypt(sess, p, EmptyBytes).err = "HANDSHAKE_NOT_COMPLETE"
       /\ \A rec \in SomeRecords :
            Session_decrypt(sess, rec, EmptyBytes).err = "HANDSHAKE_NOT_COMPLETE"
  /\ sess.sessionState # "handshaking" => HandshakeEntry(sess) = "HANDSHAKE_COMPLETE"

C9_StepOK(s) ==
  /\ <<session[s].sessionState, session'[s].sessionState>> \in
       {<<"handshaking", "handshaking">>, <<"handshaking", "established">>,
        <<"handshaking", "closed">>, <<"established", "established">>,
        <<"established", "closed">>, <<"closed", "closed">>}
  /\ (result'[s] # result[s] /\ result'[s] \in {Ok("encrypt"), Ok("decrypt")})
       => session[s].sessionState = "established"
  /\ (calls'[s] # calls[s] /\ session[s].sessionState # "handshaking")
       => /\ result'[s].err = "HANDSHAKE_COMPLETE"
          /\ pending'[s] = pending[s]

\* C9: a session only moves handshaking -> established -> closed or
\* handshaking -> closed; encrypt and decrypt succeed only in established and
\* fail with HANDSHAKE_NOT_COMPLETE in the other two states; a handshake call
\* made in established or closed fails with HANDSHAKE_COMPLETE; and a session
\* is established exactly when both ciphers are installed and the handshake
\* state is dropped.
C9_SessionStateMachine ==
  /\ [](\A s \in Parties : C9_StateOK(s))
  /\ [][\A s \in Parties : C9_StepOK(s)]_vars

C9_Witness ==
  /\ session["A"].sessionState = "closed"
  /\ session["A"].sendCipher = Null
  /\ Len(log["A"]) = 3 /\ \A i \in 1..3 : log["A"][i].err = ""
  /\ result["A"] = [op |-> "encrypt", err |-> "HANDSHAKE_NOT_COMPLETE"]
  /\ Established("B")

Closed ==
  [s \in Parties |->
     [session[s] EXCEPT !.sendCipher = Null, !.receiveCipher = Null,
                        !.handshakeHash = Null, !.remoteStaticKey = Null,
                        !.handshakeState = Null, !.sessionState = "closed"]]

\* C10: close never fails and calling it twice leaves the session as calling
\* it once does: closed, without ciphers, handshake hash and remote static
\* key, also while a handshake call is suspended; and a suspended handshake
\* call that resumes on a closed session leaves it closed.
C10_CloseIdempotent ==
  \A s \in Parties :
    /\ close(session[s]) = Closed[s]
    /\ close(close(session[s])) = close(session[s])
    /\ (pending[s] # Null /\ session[s].sessionState = "closed")
         => HandshakeResume(session[s], Awaited(s)).sess = session[s]

C10_Witness ==
  \E s \in Parties :
    /\ session[s].sessionState = "closed"
    /\ result[s] = [op |-> "readHandshakeMessage", err |-> "TypeError"]
    /\ Established(Peer(s))

(***************************************************************************)
(* Secret material                                                         *)
(***************************************************************************)
\* The bytes that close() leaves in the objects the session referenced: the
\* two cipher states get clearSensitiveData (key.fill(0), replayWindow.fill(0)),
\* handshakeHash gets fill(0), and the handshake state is only dereferenced
\* ("this.handshakeState = null"), its symmetric state untouched.
MemoryAfterClose(sess) ==
  LET cleared(c) == IF c = Null THEN Null
                    ELSE Ref([key |-> IF Deref(c).key = Null THEN Null ELSE Ref(ZeroBytes32),
                              replayWindow |-> clearSensitiveData(Deref(c)).replayWindow])
  IN [sendCipher |-> cleared(sess.sendCipher),
      receiveCipher |-> cleared(sess.receiveCipher),
      handshakeHash |-> IF sess.handshakeHash = Null THEN Null ELSE Ref(ZeroBytes32),
      symmetricState |-> IF sess.handshakeState = Null THEN Null
                         ELSE Ref(Deref(sess.handshakeState).symmetricState)]

Zeroized(bytes) == bytes = Null \/ bytes = Ref(ZeroBytes32)

\* C11: after close, from whatever state, the chaining key, the handshake
\* hash, the handshake cipher key, both transport cipher keys and the replay
\* windows the session held are zero (a session is looked at once its
\* handshake has mixed a DH result, so that these are secrets); and split
\* leaves the symmetric state's chaining key, hash and cipher key zero.
C11_ZeroizedAfterClose ==
  \A s \in Parties :
    LET m == MemoryAfterClose(session[s]) IN
    /\ \A c \in {m.sendCipher, m.receiveCipher} :
         c # Null => Zeroized(Deref(c).key) /\ Deref(c).replayWindow = ZeroWindow
    /\ Zeroized(m.handshakeHash)
    /\ (m.symmetricState # Null /\ hasCipherKey(Deref(m.symmetricState))) =>
         /\ Deref(m.symmetricState).chainingKey = ZeroBytes32
         /\ Deref(m.symmetricState).hash = ZeroBytes32
         /\ Deref(m.symmetricState).cipherState.key = Null
    /\ session[s].handshakeState # Null =>
         LET after == split(Deref(session[s].handshakeState).symmetricState,
                            session[s].useExtractedNonce).ss
         IN /\ after.chainingKey = ZeroBytes32
            /\ after.hash = ZeroBytes32
            /\ after.cipherState.key = Null

(***************************************************************************)
(* Low-order points                                                        *)
(***************************************************************************)
\* The input key materials mixed into a chaining key so far: chainingKey is
\* output[0] of hkdf(previous chainingKey, inputKeyMaterial, 2).
RECURSIVE MixedKeyMaterial(_)
MixedKeyMaterial(chainingKey) ==
  IF chainingKey[1] = "hkdf"
  THEN {chainingKey[3]} \cup MixedKeyMaterial(chainingKey[2])
  ELSE {}

\* deriveBits was called with a low-order point as the public key
LowOrderDH(secret) == secret[1] = "dhx" /\ secret[3] \in LOW_ORDER_POINTS

\* C12: no DH is performed with a low-order point as the remote public key,
\* be it received in a message or supplied as remoteStaticKey: the chaining
\* key of a handshake state never has the result of such a DH mixed in.
C12_NoLowOrderDH ==
  \A s \in Parties :
    session[s].handshakeState # Null =>
      \A secret \in MixedKeyMaterial(Deref(session[s].handshakeState).symmetricState.chainingKey) :
        ~LowOrderDH(secret)

(***************************************************************************)
(* Errors                                                                  *)
(***************************************************************************)
ProtocolViolations ==
  {"INVALID_MESSAGE", "INVALID_CIPHERTEXT", "INVALID_PUBLIC_KEY", "AUTHENTICATION_FAILURE"}

\* The outcomes of the handshake calls s can make next, each run to its end.
HandshakeOutcomes(s) ==
  IF HandshakeEntry(session[s]) # "" THEN {HandshakeEntry(session[s])}
  ELSE LET hs == Deref(session[s].handshakeState) IN
       {HandshakeResume(session[s], writeMessage(hs, EmptyBytes, <<s, keygen[s] + 1>>)).err}
         \cup {HandshakeResume(session[s], readMessage(hs, message)).err :
                 message \in FromPeer(s) \cup ForgedMessages}

\* C13: once readHandshakeMessage or decrypt has failed on a session with
\* INVALID_MESSAGE, INVALID_CIPHERTEXT, INVALID_PUBLIC_KEY or
\* AUTHENTICATION_FAILURE, no handshake call and no encrypt or decrypt on
\* that session succeeds.
C13_TerminatedAfterViolation ==
  \A s \in Parties :
    (/\ pending[s] = Null
     /\ result[s].op \in {"readHandshakeMessage", "decrypt"}
     /\ result[s].err \in ProtocolViolations)
    => /\ "" \notin HandshakeOutcomes(s)
       /\ \A p \in Payloads : Session_encrypt(session[s], p, EmptyBytes).err # ""
       /\ \A rec \in SomeRecords : Session_decrypt(session[s], rec, EmptyBytes).err # ""

\* C14: a decrypt that fails with REPLAY_DETECTED leaves the session
\* established and as it was (key, counter, highest received nonce and replay
\* window of the receive cipher included), and the record the peer encrypts
\* next still decrypts.
C14_ReplayKeepsSession ==
  \A s \in Parties :
    Established(s) =>
      \A i \in 1..Len(chan[Peer(s)]) :
        LET r == Session_decrypt(session[s], chan[Peer(s)][i].record, EmptyBytes) IN
        r.err = "REPLAY_DETECTED" =>
          /\ r.sess = session[s]
          /\ r.sess.sessionState = "established"
          /\ \A payload \in Payloads :
               LET e == Session_encrypt(session[Peer(s)], payload, EmptyBytes) IN
               e.err = "" =>
                 LET d == Session_decrypt(r.sess, Deref(e.out), EmptyBytes) IN
                 d.err = "" /\ d.out = Ref(payload)

C14_Witness ==
  \E s \in Parties :
    /\ result[s] = [op |-> "decrypt", err |-> "REPLAY_DETECTED"]
    /\ Established(s) /\ Established(Peer(s))
    /\ Len(received[s]) >= 1
    /\ Len(chan[Peer(s)]) < MaxSend

\* C15: in counter-synchronous mode the receive counter is the number of
\* successful decrypts: the records accepted so far are those sealed with
\* nonces 0, 1, 2, ... in that order, the only record accepted next is the one
\* sealed with the current counter, which then goes up by one, and any other
\* record, earlier, later or made up, fails with INVALID_CIPHERTEXT and leaves
\* the cipher state as it was.
C15_CounterModeInOrder ==
  ~rcv.useExtractedNonce =>
    /\ rcv.nonce = Nonce(BagCardinality(delivered["rcv"]))
    /\ \A n \in BagToSet(delivered["rcv"]) :
         CopiesIn(n, delivered["rcv"]) = 1 /\ n < rcv.nonce
    /\ \A rec \in wire \cup ForgedRecords(FALSE) :
         LET r == decrypt(rcv, rec, EmptyBytes) IN
         IF rec[1] = "aead" /\ rec[3] = rcv.nonce
         THEN r.err = "" /\ r.c.nonce = rcv.nonce + 1
         ELSE r.err = "INVALID_CIPHERTEXT" /\ r.c = rcv

C15_Witness ==
  /\ ~rcv.useExtractedNonce
  /\ BagCardinality(delivered["rcv"]) >= 2
  /\ lastOp = [op |-> "decrypt", who |-> "rcv", err |-> "INVALID_CIPHERTEXT",
               nonce |-> rcv.nonce]
  /\ \E rec \in wire : rec[3] < rcv.nonce
  /\ \E rec \in wire : rec[3] > rcv.nonce

(***************************************************************************)
(* Events of the relays (SpecEvents)                                       *)
(***************************************************************************)
CallsFor(id) == Cardinality({i \in 1..Len(onEventCalls) : onEventCalls[i][2] = id})

CallsOf(subId, id) ==
  Cardinality({i \in 1..Len(onEventCalls) : onEventCalls[i] = <<subId, id>>})

Arrivals(id) == {h \in handled : h.id = id}

\* every id that was added to the dedup set is still in it
NoEviction == Cardinality({h.id : h \in handled}) = Len(dedup.eventOrder)

\* the relays r1 and r2 have both delivered id, for the subscription subId,
\* which was in the store, and nothing else has delivered it
DeliveredByTwo(subId, id) ==
  /\ {h.url : h \in Arrivals(id)} = {"r1", "r2"}
  /\ \A h \in Arrivals(id) : h.subId = subId /\ h.owner

\* C16: handling one message invokes at most one callback, and none for an
\* event id the dedup set tracks when the message arrives; and when two
\* connected relays have delivered an event id for a subscription (with no
\* eviction so far), the callback of that subscription has run exactly once
\* for it.
C16_AtMostOncePerTrackedId ==
  /\ [][/\ Len(onEventCalls') <= Len(onEventCalls) + 1
        /\ \A id \in EventIds :
             id \in dedup.seenEvents => CallsFor(id)' = CallsFor(id)]_vars
  /\ [](\A subId \in SubIds : \A id \in EventIds :
          NoEviction /\ DeliveredByTwo(subId, id)
            => CallsFor(id) = 1 /\ CallsOf(subId, id) = 1)

C16_Witness ==
  \E subId \in SubIds : \E id \in EventIds :
    /\ NoEviction
    /\ DeliveredByTwo(subId, id)
    /\ CallsOf(subId, id) = 1

\* C17: for every subscription in the store and every event id that arrived
\* in an EVENT message for it, onEvent of that subscription was invoked
\* exactly once with that id.
C17_ExactlyOncePerSubscription ==
  \A h \in handled : h.owner => CallsOf(h.subId, h.id) = 1

(***************************************************************************)
(* Connections of the relay manager (SpecRelay)                            *)
(***************************************************************************)
Status(url) == Deref(mgr.relayInfo[url]).status

\* C18: each relay whose status is connected has an open socket on which a
\* REQ was sent for every subscription in the store.
C18_ConnectedHasSubscriptions ==
  \A url \in Urls :
    mgr.relayInfo[url] # Null /\ Status(url) = "connected"
      => \E ws \in BagToSet(mgr.sockets) :
           /\ ws.url = url
           /\ ws.readyState = "OPEN"
           /\ \A subId \in mgr.subscriptions : <<"REQ", subId>> \in ws.sent

Attempts(m, url) == Deref(m.relayInfo[url]).reconnectAttempts

\* how many timers are pending for url
PendingTimers(m, url) ==
  BagCardinality([t \in {t \in BagToSet(m.timers) : t.url = url} |-> m.timers[t]])

\* how many sockets to url are open
OpenSockets(m, url) ==
  BagCardinality([ws \in {ws \in BagToSet(m.sockets) :
                           ws.url = url /\ ws.readyState = "OPEN"} |-> m.sockets[ws]])

\* C19: reconnectAttempts of a relay changes only by going up by one or by
\* going to 0; every retry that is scheduled takes it up by one, to k, and has
\* the delay min(1000 * 2^(k-1), 300000) ms; every open of a socket to the
\* relay takes it to 0.
C19_Backoff ==
  [][\A url \in Urls :
       mgr.relayInfo[url] # Null /\ mgr'.relayInfo[url] # Null =>
         LET k == Attempts(mgr', url) IN
         /\ k \in {Attempts(mgr, url), Attempts(mgr, url) + 1, 0}
         /\ PendingTimers(mgr', url) > PendingTimers(mgr, url)
              => k = Attempts(mgr, url) + 1
         /\ k = Attempts(mgr, url) + 1
              => \E t \in Registered(mgr'.timers, url) :
                   t.delay = Min(1000 * 2 ^ (k - 1), 300000)
         /\ OpenSockets(mgr', url) > OpenSockets(mgr, url) => k = 0]_vars

\* C20: no timer is pending for a relay that was removed and not added again.
C20_NoTimerAfterRemove ==
  \A url \in mgr.urls :
    mgr.relayInfo[url] = Null => \A t \in BagToSet(mgr.timers) : t.url # url

\* C21: when disconnect() returns, no reconnect timer is pending, relays is
\* empty and the status of every relay is disconnected.
C21_DisconnectClearsAll ==
  LET m == disconnect(mgr) IN
  /\ m.timers = EmptyBag
  /\ \A url \in Urls : Registered(m.sockets, url) = {}
  /\ \A url \in Urls :
       m.relayInfo[url] # Null => Deref(m.relayInfo[url]).status = "disconnected"

(***************************************************************************)
(* One relay offline (SpecOffline)                                         *)
(***************************************************************************)
\* r1 is connected, and its socket was sent the REQ of every subscription,
\* is sent every event published now and has every new event it delivers for
\* a subscription handed to onEvent
Served ==
  \E ws \in Registered(mgr.sockets, "r1") :
    /\ ws.readyState = "OPEN"
    /\ \A subId \in mgr.subscriptions : <<"REQ", subId>> \in ws.sent
    /\ \A id \in EventIds :
         \E x \in Registered(publish(mgr, id).sockets, "r1") : <<"EVENT", id>> \in x.sent
    /\ \A subId \in mgr.subscriptions : \A id \in EventIds \ dedup.seenEvents :
         handleMessage(dedup, mgr.subscriptions, onEventCalls, <<"EVENT", subId, id>>).calls
           = Append(onEventCalls, <<subId, id>>)

\* C22: with r2 never opening and failing again and again, r1 becomes
\* connected after connect(), and while it is connected it has been sent
\* every subscription, is sent every published event and has its events
\* delivered.
C22_OfflineRelayDoesNotBlock ==
  /\ (mgr.created > 0) ~> (Status("r1") = "connected")
  /\ [](Status("r1") = "connected" => Served)

C22_Witness ==
  /\ Status("r1") = "connected"
  /\ Status("r2") # "connected"
  /\ Attempts(mgr, "r2") >= 2
  /\ mgr.subscriptions = SubIds
  /\ \E ws \in Registered(mgr.sockets, "r1") : \E id \in EventIds :
       <<"EVENT", id>> \in ws.sent
  /\ Len(onEventCalls) >= 1

(***************************************************************************)
(* Unsubscribing (SpecRelay)                                               *)
(***************************************************************************)
\* C23: unsubscribe(subId) takes the subscription out of the store and sends
\* ["CLOSE", subId] on an open socket of every relay whose status is
\* connected; an EVENT for a sub id that is not in the store invokes no
\* callback, and a socket that opens is sent no REQ for such a sub id.
C23_Unsubscribe ==
  /\ \A subId \in mgr.subscriptions :
       LET m == unsubscribe(mgr, subId) IN
       /\ subId \notin m.subscriptions
       /\ \A url \in Urls :
            mgr.relayInfo[url] # Null /\ Status(url) = "connected"
              => \E ws \in BagToSet(m.sockets) :
                   /\ ws.url = url
                   /\ ws.readyState = "OPEN"
                   /\ <<"CLOSE", subId>> \in ws.sent
  /\ \A subId \in SubIds \ mgr.subscriptions :
       /\ \A id \in EventIds :
            handleMessage(dedup, mgr.subscriptions, onEventCalls,
                          <<"EVENT", subId, id>>).calls = onEventCalls
       /\ \A ws \in BagToSet(mgr.sockets) :
            ws.readyState = "CONNECTING" =>
              \A x \in BagToSet(onopen(mgr, ws).sockets) :
                <<"REQ", subId>> \in x.sent =>
                  \E y \in BagToSet(mgr.sockets) : <<"REQ", subId>> \in y.sent

(***************************************************************************)
(* Order of the callbacks (SpecEvents)                                     *)
(***************************************************************************)
\* the EVENT messages handled so far, in the order of their arrival
ArrivalsInOrder ==
  [i \in 1..Cardinality(handled) |-> CHOOSE h \in handled : h.seq = i]

\* the novel events that arrived for a stored subscription, in arrival order
NovelFor(subId) ==
  LET sel == SelectSeq(ArrivalsInOrder,
                       LAMBDA h : h.subId = subId /\ h.novel /\ h.owner)
  IN [i \in 1..Len(sel) |-> <<sel[i].subId, sel[i].id>>]

CallsOfSub(subId) == SelectSeq(onEventCalls, LAMBDA c : c[1] = subId)

\* C24: in every state, between the handling of any two messages, the onEvent
\* invocations of each subscription are exactly the novel events that have
\* arrived for it, in the order of their arrival: no message is left marked
\* in the dedup set with its callback still to run.
C24_CallbacksInArrivalOrder ==
  \A subId \in SubIds : CallsOfSub(subId) = NovelFor(subId)

\* two different events were delivered to one subscription and a duplicate
\* for it was dropped
C24_Witness ==
  \E subId \in SubIds :
    /\ Len(CallsOfSub(subId)) >= 2
    /\ CallsOfSub(subId)[1] # CallsOfSub(subId)[2]
    /\ \E h \in handled : h.subId = subId /\ ~h.novel

(***************************************************************************)
(* The dedup set (SpecDedup)                                               *)
(***************************************************************************)
\* the ids that eventOrder keeps of the sequence ids: the newest ones, and as
\* few of them as make 90% of the capacity
NewestNinetyPercent(kept, ids) ==
  /\ Len(kept) * 10 >= CLEANUP_THRESHOLD_TENTHS
  /\ (Len(kept) - 1) * 10 < CLEANUP_THRESHOLD_TENTHS
  /\ kept = SubSeq(ids, Len(ids) - Len(kept) + 1, Len(ids))

SignedEvents ==
  IF nostr.item = Null THEN {}
  ELSE IF Item.op = "message" THEN {Item.giftWrap, Item.seal}
  ELSE IF Item.op = "event" THEN {Item.event}
  ELSE {}

Fields == {"id", "pubkey", "created_at", "kind", "tags", "content", "sig"}

\* values to put in the place of a field of a signed event
OtherValues(event, field) ==
  CASE field = "id" -> {Null, <<"sha256", "other">>}
    [] field = "pubkey" ->
         {getPublicKey(k) : k \in IdentityKeys \cup AttackerKeys \cup EphemeralKeys}
           \cup {Compressed(event.pubkey.x, FALSE)}
    [] field = "created_at" -> {event.created_at - 1, event.created_at + 1}
    [] field = "kind" -> {Kind_Seal, Kind_DM, Kind_GiftWrap, Kind_EphemeralEvent}
    [] field = "tags" -> {<<>>, <<<<"t">>>>}
    [] field = "content" -> Contents \cup {<<"str", <<"x">>>>}
    [] field = "sig" ->
         {Null, Ref(<<"nothex">>), Ref(<<"schnorr", <<"sha256", "other">>, Deref(event.sig)[3]>>)}
           \cup {Ref(<<"schnorr", calculateEventId(event), k>>) :
                   k \in IdentityKeys \cup AttackerKeys \cup EphemeralKeys}

\* C26: verify returns true for every event that sign has produced, and
\* false once any one field of it has been given a different value; verify
\* returns a boolean in each case.
C26_SignVerify ==
  \A event \in SignedEvents :
    /\ verify(event) = TRUE
    /\ \A field \in Fields : \A value \in OtherValues(event, field) :
         value # event[field] => verify([event EXCEPT ![field] = value]) = FALSE

\* C27: when decryptPrivateMessage returns a message with sender P, the party
\* that produced the gift wrap holds the private key of P.
C27_SenderAttested ==
  nostr.item # Null /\ nostr.result # Null =>
    (Item.op = "message" /\ Deref(nostr.result).r.err = ""
       => getPublicKey(Item.by) = Deref(Deref(nostr.result).r.out).senderPubkey)

\* C28: what decryptPrivateMessage returns to the recipient of a message is
\* its content, the public key of the sender identity and the creation time
\* of the rumor, whatever the parities of the keys.
C28_RoundTrip ==
  nostr.item # Null /\ nostr.result # Null =>
    (Item.op = "message" /\ Deref(nostr.result).who = Item.recipient
       => /\ Deref(nostr.result).r.err = ""
          /\ Deref(Deref(nostr.result).r.out) =
               [content |-> Item.content,
                senderPubkey |-> Item.sender.publicKeyHex,
                timestamp |-> Item.now])

\* the recipient has an odd public point, the sender an even one, the keys of
\* the seal and of the gift wrap differ in parity, and the content is empty
C28_Witness ==
  /\ nostr.item # Null
  /\ nostr.result # Null
  /\ Item.op = "message"
  /\ Deref(nostr.result).who = Item.recipient
  /\ Deref(nostr.result).r.err = ""
  /\ Item.recipient \in OddKeys
  /\ Item.by \notin OddKeys
  /\ Item.by = Item.sender.privateKey
  /\ Item.seal.pubkey.x \in OddKeys
  /\ Item.giftWrap.pubkey.x \notin OddKeys
  /\ Item.content = <<"str", <<>>>>
  /\ Item.giftWrap.created_at # Item.now

\* the key that made the signature of a signed event
SignerOf(event) == Deref(event.sig)[3]

\* C29: the seal (kind 13) and the gift wrap (kind 1059) of a private message
\* each carry the public key of an ephemeral key and a valid signature by
\* it; the two keys differ from each other and from the identity key of the
\* sender; the public key of the sender is neither the pubkey nor in the
\* tags of the seal, nor the pubkey of the gift wrap, whose only tag names
\* the recipient: it is in the rumor, which the seal carries encrypted.
C29_EphemeralKeys ==
  nostr.item # Null =>
    (Item.op = "message" =>
       LET seal == Item.seal
           giftWrap == Item.giftWrap
       IN /\ seal.kind = Kind_Seal
          /\ giftWrap.kind = Kind_GiftWrap
          /\ verify(seal) /\ verify(giftWrap)
          /\ SignerOf(seal) \in EphemeralKeys
          /\ SignerOf(giftWrap) \in EphemeralKeys
          /\ SignerOf(seal) # SignerOf(giftWrap)
          /\ Item.sender.privateKey \notin {SignerOf(seal), SignerOf(giftWrap)}
          /\ Item.sender.publicKeyHex \notin {seal.pubkey, giftWrap.pubkey}
          /\ seal.tags = <<>>
          /\ giftWrap.tags = <<<<"p", getPublicKey(Item.recipient)>>>>
          /\ giftWrap.content[1] = "v2" /\ giftWrap.content[4] = toJSON(seal)
          /\ seal.content[1] = "v2"
          /\ seal.content[4][2].pubkey = Item.sender.publicKeyHex)

\* a private message of an identity was produced
C29_Witness ==
  /\ nostr.item # Null
  /\ Item.op = "message"
  /\ Item.by = Item.sender.privateKey
  /\ Item.by \in IdentityKeys
  /\ Item.recipient # Item.by

\* C30: decrypt by the recipient returns the plaintext that encrypt was
\* given, the empty string included, and decrypt rejects a ciphertext for
\* its length only when what follows the nonce is shorter than the tag.
C30_Nip44RoundTrip ==
  nostr.item # Null /\ nostr.result # Null =>
    (Item.op = "ciphertext" =>
       /\ Deref(nostr.result).who = Item.recipient
            => /\ Deref(nostr.result).r.err = ""
               /\ Deref(Deref(nostr.result).r.out) = Item.plaintext
       /\ Deref(nostr.result).r.err = "Ciphertext too short"
            => DataLength(Item.ciphertext) - XCHACHA_NONCE_BYTES < POLY1305_TAG_BYTES)

\* The code of the NostrProtocolError that carries the message, "Error" for
\* what the cipher library throws itself.
NostrProtocolErrorCode(message) ==
  IF message \in {"Expected NIP-44 v2 format", "Ciphertext too short"}
  THEN "INVALID_CIPHERTEXT"
  ELSE IF message = "INVALID_PUBLIC_KEY" THEN "INVALID_PUBLIC_KEY"
  ELSE "Error"

EvenAttempt == tryDecrypt(Item.ciphertext, Deref(nostr.result).who,
                          Compressed(getPublicKey(Item.sender).x, FALSE))
OddAttempt == tryDecrypt(Item.ciphertext, Deref(nostr.result).who,
                         Compressed(getPublicKey(Item.sender).x, TRUE))

\* C31: on a ciphertext long enough to hold a tag, decrypt with an x-only
\* sender key returns what the even attempt returns when that succeeds and
\* otherwise what the odd attempt returns, and when both attempts fail the
\* caller gets an error of code INVALID_CIPHERTEXT.
C31_ParityRetry ==
  nostr.item # Null /\ nostr.result # Null =>
    ((/\ Item.op = "ciphertext"
      /\ DataLength(Item.ciphertext) > XCHACHA_NONCE_BYTES + POLY1305_TAG_BYTES) =>
       /\ EvenAttempt.err = "" => Deref(nostr.result).r = EvenAttempt
       /\ EvenAttempt.err # "" /\ OddAttempt.err = ""
            => Deref(nostr.result).r = OddAttempt
       /\ EvenAttempt.err # "" /\ OddAttempt.err # ""
            => NostrProtocolErrorCode(Deref(nostr.result).r.err) = "INVALID_CIPHERTEXT")

\* What createPrivateMessage drew for the message in flight, with any of the
\* offsets in place of the two it drew.
OtherOffsets ==
  {rnd \in Randomness :
     /\ rnd.sealKey = Item.seal.pubkey.x
     /\ rnd.wrapKey = Item.giftWrap.pubkey.x
     /\ rnd.sealNonce = Item.seal.content[2]
     /\ rnd.wrapNonce = Item.giftWrap.content[2]}

\* The created_at values that createPrivateMessage can give the seal and
\* the gift wrap of the message in flight, as pairs.
TimestampPairs ==
  {<<Deref(r.seal).created_at, Deref(r.out).created_at>> :
     r \in {m \in {createPrivateMessage(Item.content, getPublicKey(Item.recipient),
                                        Item.sender, rnd) : rnd \in OtherOffsets} :
              m.err = ""}}

\* C32: the created_at of the seal and that of the gift wrap of a private
\* message each lie within 900 seconds of the current time, every pair of
\* draws for the two can occur together, and the created_at of the rumor
\* inside the seal is the current time.
C32_Timestamps ==
  nostr.item # Null =>
    (Item.op = "message" =>
       /\ Item.seal.created_at \in (Item.now - 900)..(Item.now + 900)
       /\ Item.giftWrap.created_at \in (Item.now - 900)..(Item.now + 900)
       /\ Item.seal.content[4][2].created_at = Item.now
       /\ \A a \in RandomOffsets, b \in RandomOffsets :
            <<Now + a, Now + b>> \in TimestampPairs)

\* a message whose seal was moved back and whose gift wrap was moved forward
C32_Witness ==
  /\ nostr.item # Null
  /\ Item.op = "message"
  /\ Item.seal.created_at < Item.now
  /\ Item.giftWrap.created_at > Item.now

\* the bit isValidNonce reads for offset k
WindowBit(c, k) == BitAnd1(ReadByte(c.replayWindow, k \div 8), k % 8)

\* C34: in extracted-nonce mode, for every offset k below 1024, the bit of
\* the replay window at byte k div 8, bit k mod 8 is set exactly when the
\* nonce highest_received - k has been accepted.
C34_WindowExact ==
  rcv.useExtractedNonce =>
    \A k \in 0..(REPLAY_WINDOW_SIZE - 1) :
      WindowBit(rcv, k) = 1
        <=> /\ Nonce(k) <= rcv.highestReceivedNonce
            /\ BagIn(rcv.highestReceivedNonce - k, delivered["rcv"])

\* the sockets to url on which close() was not called and no close event
\* fired, as a bag
LiveSockets(m, url) ==
  [ws \in {ws \in BagToSet(m.sockets) :
            ws.url = url /\ ws.readyState \in {"CONNECTING", "OPEN"}} |-> m.sockets[ws]]

\* C35: for each relay url at most one socket is connecting or open, that
\* socket is the one relays holds for the url, and a relay whose status is
\* connected has an open socket in relays.
C35_OneLiveSocket ==
  \A url \in Urls :
    /\ BagCardinality(LiveSockets(mgr, url)) <= 1
    /\ \A ws \in BagToSet(LiveSockets(mgr, url)) : ws.registered
    /\ mgr.relayInfo[url] # Null /\ Status(url) = "connected"
         => \E ws \in Registered(mgr.sockets, url) : ws.readyState = "OPEN"

\* C36: from a state that disconnect() leaves (no socket in relays, every
\* socket closing, no timer in reconnectTimers, every status disconnected),
\* a step that is neither connect() nor addRelay() schedules no timer and
\* creates no socket.
C36_StaysDisconnected ==
  [][(/\ mgr = disconnect(mgr)
      /\ mgr' # connect(mgr)
      /\ \A url \in Urls : mgr.relayInfo[url] = Null => mgr' # addRelay(mgr, url))
     => /\ mgr'.created = mgr.created
        /\ \A t \in BagToSet(mgr'.timers) :
             CopiesIn(t, mgr'.timers) <= CopiesIn(t, mgr.timers)]_vars

\* C38: for each relay url at most one timer is pending, and it is the one
\* reconnectTimers holds for the url.
C38_OnePendingTimer ==
  \A url \in Urls :
    /\ PendingTimers(mgr, url) <= 1
    /\ \A t \in BagToSet(mgr.timers) : t.url = url => t.registered

\* C39: a writeMessage or readMessage call that throws leaves the handshake
\* state object as it was when the call started, and a call that returns
\* has moved the pattern index up by exactly one.
C39_FailedCallChangesNothing ==
  \A s \in Parties :
    pending[s] # Null =>
      /\ Awaited(s).err # "" => Awaited(s).hs = Deref(pending[s]).hs
      /\ Awaited(s).err = ""
           => Awaited(s).hs.currentPattern = Deref(pending[s]).hs.currentPattern + 1

\* the role that writes message k of a pattern (counted from 0): the
\* messages go back and forth, the initiator writes the first
Writer(k) == IF k % 2 = 0 THEN "initiator" ELSE "responder"

\* the call is a write of a message the other role writes, or a read of a
\* message this role writes
OutOfTurn(call) ==
  /\ ~isHandshakeComplete(call.hs)
  /\ (call.op = "writeHandshakeMessage") # (call.hs.role = Writer(call.hs.currentPattern))

\* C40: a writeMessage or readMessage call made out of turn throws and
\* leaves the pattern index and the symmetric state as they were.
C40_TurnsEnforced ==
  \A s \in Parties :
    pending[s] # Null /\ OutOfTurn(Deref(pending[s])) =>
      /\ Awaited(s).err # ""
      /\ Awaited(s).hs.currentPattern = Deref(pending[s]).hs.currentPattern
      /\ Awaited(s).hs.symmetricState = Deref(pending[s]).hs.symmetricState

\* C37: once the connection attempt that connect() started for each
\* configured relay has opened or has failed, the promise of connect() is
\* settled.
C37_ConnectSettles ==
  awaiting # Null =>
    ((\A url \in Urls : Promises[url] # "pending") => ConnectSettled)

\* the identities that the calls so far have returned
ReturnedIdentities == {km.call[c].returned : c \in Callers} \ {Null}

\* C33: while neither deleteAllKeys nor importNostrIdentity has run, at most
\* one identity has been generated, and every identity that a call returned
\* is the one the key store holds.
C33_OneIdentity ==
  km.wipes = 0 =>
    /\ km.minted <= 1
    /\ \A identity \in ReturnedIdentities : identity = km.store

====
